---- MODULE Spec2Model ----
(***************************************************************************)
(* AIFX package integrity engine: canonical manifest serialisation, the    *)
(* self-excluding manifest hash, container assembly by the four build      *)
(* entrypoints, and the verification passes that consume a container.      *)
(***************************************************************************)
EXTENDS Integers, Sequences, FiniteSets, TLC

(***************************************************************************)
(* Strings.  A Python str is a sequence of one-character strings, so that  *)
(* strip, lower, concatenation, the e-mail pattern and the code-point      *)
(* order used by sort_keys are computed character by character.            *)
(***************************************************************************)

\* the characters that occur in the model, in code-point order
Alphabet == <<"\n", " ", "-", ".", "/", "0", "1", "2", "3", "4", "5", "6", "7", "8", "9", ":", "@", "A", "B", "C", "D", "E", "F", "G", "H", "I", "J", "K", "L", "M", "N", "O", "P", "Q", "R", "S", "T", "U", "V", "W", "X", "Y", "Z", "\\", "_", "a", "b", "c", "d", "e", "f", "g", "h", "i", "j", "k", "l", "m", "n", "o", "p", "q", "r", "s", "t", "u", "v", "w", "x", "y", "z">>

UpperCase == <<"A", "B", "C", "D", "E", "F", "G", "H", "I", "J", "K", "L", "M", "N", "O", "P", "Q", "R", "S", "T", "U", "V", "W", "X", "Y", "Z">>

LowerCase == <<"a", "b", "c", "d", "e", "f", "g", "h", "i", "j", "k", "l", "m", "n", "o", "p", "q", "r", "s", "t", "u", "v", "w", "x", "y", "z">>

Range(f) == {f[i] : i \in DOMAIN f}

\* ord(c)
Ord == [c \in Range(Alphabet) |-> CHOOSE i \in DOMAIN Alphabet : Alphabet[i] = c]

\* str.__lt__: lexicographic by code point
RECURSIVE StrLess(_, _)
StrLess(a, b) ==
    IF a = <<>> THEN b # <<>>
    ELSE IF b = <<>> THEN FALSE
    ELSE IF a[1] = b[1] THEN StrLess(Tail(a), Tail(b))
    ELSE Ord[a[1]] < Ord[b[1]]

IsSpace(c) == c \in {" ", "\n"}

RECURSIVE LStrip(_)
LStrip(s) == IF s # <<>> /\ IsSpace(s[1]) THEN LStrip(Tail(s)) ELSE s

RECURSIVE RStrip(_)
RStrip(s) ==
    IF s # <<>> /\ IsSpace(s[Len(s)]) THEN RStrip(SubSeq(s, 1, Len(s) - 1)) ELSE s

\* str.strip()
Strip(s) == RStrip(LStrip(s))

LowerChar(c) ==
    IF c \in Range(UpperCase)
    THEN LowerCase[CHOOSE i \in DOMAIN UpperCase : UpperCase[i] = c]
    ELSE c

\* str.lower()
Lower(s) == [i \in DOMAIN s |-> LowerChar(s[i])]

\* str.startswith(prefix)
StartsWith(s, prefix) ==
    Len(s) >= Len(prefix) /\ SubSeq(s, 1, Len(prefix)) = prefix

\* str(n) for a natural number n
RECURSIVE Digits(_)
Digits(n) ==
    LET d == <<"0", "1", "2", "3", "4", "5", "6", "7", "8", "9">>[(n % 10) + 1]
    IN  IF n < 10 THEN <<d>> ELSE Digits(n \div 10) \o <<d>>

RECURSIVE SumSeq(_)
SumSeq(s) == IF s = <<>> THEN 0 ELSE s[1] + SumSeq(Tail(s))

(***************************************************************************)
(* JSON documents as Python holds them.  A value is a tagged tuple:        *)
(*   <<"s", chars>>   a str          <<"h", bytes>>  the str that is the   *)
(*   <<"b", "true">>  a bool                         hexdigest of bytes    *)
(*   <<"n", k>>       an int         <<"z">>         None / null           *)
(*   <<"a", values>>  a list         <<"o", members>> a dict, members the  *)
(*                                   <<key, value>> pairs in insertion     *)
(*                                   order (dicts keep insertion order)    *)
(***************************************************************************)
None == <<"z">>
True == <<"b", "true">>
False == <<"b", "false">>
Str(chars) == <<"s", chars>>
Num(k) == <<"n", k>>
Obj(members) == <<"o", members>>
Arr(values) == <<"a", values>>
EmptyStr == Str(<<>>)
EmptyObj == Obj(<<>>)

IsDict(v) == v[1] = "o"
IsStrVal(v) == v[1] \in {"s", "h"}
IsInt(v) == v[1] = "n"

\* Python truthiness, as used by `x or default` and `if not x`
Truthy(v) ==
    CASE v[1] = "z" -> FALSE
      [] v[1] = "s" -> v[2] # <<>>
      [] v[1] = "h" -> TRUE
      [] v[1] = "b" -> v[2] = "true"
      [] v[1] = "n" -> v[2] # 0
      [] OTHER      -> v[2] # <<>>

\* x or default
OrElse(v, default) == IF Truthy(v) THEN v ELSE default

\* key in d
HasKey(d, k) == \E i \in DOMAIN d[2] : d[2][i][1] = k

\* d.get(k)
Get(d, k) ==
    IF HasKey(d, k) THEN d[2][CHOOSE i \in DOMAIN d[2] : d[2][i][1] = k][2] ELSE None

\* d[k] = v : an existing key keeps its position, a new key is appended
Put(d, k, v) ==
    IF HasKey(d, k)
    THEN Obj([i \in DOMAIN d[2] |-> IF d[2][i][1] = k THEN <<k, v>> ELSE d[2][i]])
    ELSE Obj(Append(d[2], <<k, v>>))

\* d.pop(k, None) / del d[k] guarded by `k in d`
Del(d, k) == Obj(SelectSeq(d[2], LAMBDA m : m[1] # k))

(***************************************************************************)
(* Bytes.  An entry's bytes are raw media bytes <<"raw", ints>>, the text  *)
(* of a text file <<"text", chars>>, or a JSON text <<"json", style, doc>>:*)
(* the document in the order in which its keys were written, laid out in   *)
(* one of json.dumps' styles.  Two JSON texts of a non-empty document are  *)
(* the same bytes exactly when style and ordered document agree.  All      *)
(* strings of the model are ASCII, so ensure_ascii changes no byte.        *)
(***************************************************************************)
Raw(ints) == <<"raw", ints>>

\* the UTF-8 bytes of a text file
Text(chars) == <<"text", chars>>

RECURSIVE InsertMember(_, _)
InsertMember(m, sorted) ==
    IF sorted = <<>> THEN <<m>>
    ELSE IF StrLess(m[1], sorted[1][1]) THEN <<m>> \o sorted
    ELSE <<sorted[1]>> \o InsertMember(m, Tail(sorted))

RECURSIVE SortMembers(_)
SortMembers(ms) ==
    IF ms = <<>> THEN <<>> ELSE InsertMember(ms[1], SortMembers(Tail(ms)))

\* the document as json.dumps(sort_keys=True) writes it: keys of every dict in code-point order
RECURSIVE SortKeys(_)
SortKeys(v) ==
    CASE v[1] = "o" ->
           Obj(SortMembers([i \in DOMAIN v[2] |-> <<v[2][i][1], SortKeys(v[2][i][2])>>]))
      [] v[1] = "a" -> Arr([i \in DOMAIN v[2] |-> SortKeys(v[2][i])])
      [] OTHER -> v

\* json.dumps(doc, sort_keys=..., separators=(",", ":")) / json.dumps(doc, indent=2) [+ "\n"]
JsonDumps(doc, sort_keys, style) ==
    <<"json", style, IF sort_keys THEN SortKeys(doc) ELSE doc>>

IsJson(bytes) == bytes[1] = "json"

\* json.loads(text): the document, keys in the order of the text
JsonLoads(bytes) == bytes[3]

\* json.loads(json.dumps(doc)): a deep copy that keeps key order
DeepCopy(doc) == JsonLoads(JsonDumps(doc, FALSE, "default"))

\* number of bytes of a str inside a JSON text (quotes, escapes of newline, quote and backslash)
QuotedLen(chars) ==
    2 + Len(chars) + Cardinality({i \in DOMAIN chars : chars[i] \in {"\n", "\"", "\\"}})

\* len(json.dumps(v, ...).encode("utf-8")) for the compact and the indent=2 layouts
RECURSIVE JsonLen(_, _, _)
JsonLen(v, indent, depth) ==
    CASE v[1] = "s" -> QuotedLen(v[2])
      [] v[1] = "h" -> 66
      [] v[1] = "b" -> IF v[2] = "true" THEN 4 ELSE 5
      [] v[1] = "z" -> 4
      [] v[1] = "n" -> Len(Digits(v[2]))
      [] v[1] = "o" ->
           IF v[2] = <<>> THEN 2
           ELSE LET n == Len(v[2])
                    pad == IF indent THEN 2 * (depth + 1) ELSE 0
                    colon == IF indent THEN 2 ELSE 1
                    comma == IF indent THEN 2 ELSE 1
                    close == IF indent THEN 2 + 2 * depth ELSE 0
                IN  2 + close + comma * (n - 1)
                      + SumSeq([i \in 1..n |->
                                  pad + QuotedLen(v[2][i][1]) + colon
                                      + JsonLen(v[2][i][2], indent, depth + 1)])
      [] OTHER ->
           IF v[2] = <<>> THEN 2
           ELSE LET n == Len(v[2])
                    pad == IF indent THEN 2 * (depth + 1) ELSE 0
                    comma == IF indent THEN 2 ELSE 1
                    close == IF indent THEN 2 + 2 * depth ELSE 0
                IN  2 + close + comma * (n - 1)
                      + SumSeq([i \in 1..n |-> pad + JsonLen(v[2][i], indent, depth + 1)])

\* len(bytes)
ByteLen(bytes) ==
    IF bytes[1] \in {"raw", "text"} THEN Len(bytes[2])
    ELSE JsonLen(bytes[3], bytes[2] # "compact", 0) + (IF bytes[2] = "indent2nl" THEN 1 ELSE 0)

\* a digest that maps all contents to one value: payload tamper detection must fail with it
Sha256_constant(bytes) == <<"h", <<>>>>

\* hashlib.sha256(bytes).hexdigest(): a 64-character str, modelled collision-free
Sha256(bytes) == <<"h", bytes>>

\* sha256_file(p) -> (hexdigest, size)
sha256_file(bytes) == <<Sha256(bytes), ByteLen(bytes)>>

\* _canonical_manifest_bytes / _canonical_json_bytes: sorted keys, compact separators, UTF-8
canonical_manifest_bytes_compact(manifest) == JsonDumps(manifest, TRUE, "compact")

(***************************************************************************)
(* The string literals of the source, as sequences of characters.          *)
(***************************************************************************)

\* the keys of the manifest and of its nested objects
Key ==
    [aifx |-> <<"a", "i", "f", "x">>,
     duration |-> <<"d", "u", "r", "a", "t", "i", "o", "n">>,
     width |-> <<"w", "i", "d", "t", "h">>,
     height |-> <<"h", "e", "i", "g", "h", "t">>,
     fps |-> <<"f", "p", "s">>,
     codec |-> <<"c", "o", "d", "e", "c">>,
     container |-> <<"c", "o", "n", "t", "a", "i", "n", "e", "r">>,
     version |-> <<"v", "e", "r", "s", "i", "o", "n">>,
     work |-> <<"w", "o", "r", "k">>,
     title |-> <<"t", "i", "t", "l", "e">>,
     creator |-> <<"c", "r", "e", "a", "t", "o", "r">>,
     name |-> <<"n", "a", "m", "e">>,
     contact |-> <<"c", "o", "n", "t", "a", "c", "t">>,
     author |-> <<"a", "u", "t", "h", "o", "r">>,
     mode |-> <<"m", "o", "d", "e">>,
     ai_generated |-> <<"a", "i", "_", "g", "e", "n", "e", "r", "a", "t", "e", "d">>,
     verification_tier |-> <<"v", "e", "r", "i", "f", "i", "c", "a", "t", "i", "o", "n", "_", "t", "i", "e", "r">>,
     declaration |-> <<"d", "e", "c", "l", "a", "r", "a", "t", "i", "o", "n">>,
     format |-> <<"f", "o", "r", "m", "a", "t">>,
     assets |-> <<"a", "s", "s", "e", "t", "s">>,
     audio |-> <<"a", "u", "d", "i", "o">>,
     cover |-> <<"c", "o", "v", "e", "r">>,
     integrity |-> <<"i", "n", "t", "e", "g", "r", "i", "t", "y">>,
     algorithm |-> <<"a", "l", "g", "o", "r", "i", "t", "h", "m">>,
     manifest_hash_mode |-> <<"m", "a", "n", "i", "f", "e", "s", "t", "_", "h", "a", "s", "h", "_", "m", "o", "d", "e">>,
     hashed_files |-> <<"h", "a", "s", "h", "e", "d", "_", "f", "i", "l", "e", "s">>,
     sha256 |-> <<"s", "h", "a", "2", "5", "6">>,
     bytes |-> <<"b", "y", "t", "e", "s">>,
     aifx_version |-> <<"a", "i", "f", "x", "_", "v", "e", "r", "s", "i", "o", "n">>,
     type |-> <<"t", "y", "p", "e">>,
     provenance |-> <<"p", "r", "o", "v", "e", "n", "a", "n", "c", "e">>,
     primary_tool |-> <<"p", "r", "i", "m", "a", "r", "y", "_", "t", "o", "o", "l">>,
     video |-> <<"v", "i", "d", "e", "o">>,
     governance |-> <<"g", "o", "v", "e", "r", "n", "a", "n", "c", "e">>,
     standard |-> <<"s", "t", "a", "n", "d", "a", "r", "d">>,
     repo |-> <<"r", "e", "p", "o">>,
     created_utc |-> <<"c", "r", "e", "a", "t", "e", "d", "_", "u", "t", "c">>,
     origin |-> <<"o", "r", "i", "g", "i", "n">>,
     ai_platform |-> <<"a", "i", "_", "p", "l", "a", "t", "f", "o", "r", "m">>,
     primary_url |-> <<"p", "r", "i", "m", "a", "r", "y", "_", "u", "r", "l">>,
     ai |-> <<"a", "i">>,
     system |-> <<"s", "y", "s", "t", "e", "m">>,
     verification |-> <<"v", "e", "r", "i", "f", "i", "c", "a", "t", "i", "o", "n">>,
     tier |-> <<"t", "i", "e", "r">>,
     payload |-> <<"p", "a", "y", "l", "o", "a", "d">>,
     primary |-> <<"p", "r", "i", "m", "a", "r", "y">>,
     mime |-> <<"m", "i", "m", "e">>,
     links |-> <<"l", "i", "n", "k", "s">>,
     metadata_refs |-> <<"m", "e", "t", "a", "d", "a", "t", "a", "_", "r", "e", "f", "s">>,
     declaration_text |-> <<"d", "e", "c", "l", "a", "r", "a", "t", "i", "o", "n", "_", "t", "e", "x", "t">>,
     cover_image |-> <<"c", "o", "v", "e", "r", "_", "i", "m", "a", "g", "e">>]

\* file suffixes, with the dot
Dot ==
    [wav |-> <<".", "w", "a", "v">>,
     mp3 |-> <<".", "m", "p", "3">>,
     flac |-> <<".", "f", "l", "a", "c">>,
     m4a |-> <<".", "m", "4", "a">>,
     ogg |-> <<".", "o", "g", "g">>,
     mp4 |-> <<".", "m", "p", "4">>,
     mov |-> <<".", "m", "o", "v">>,
     webm |-> <<".", "w", "e", "b", "m">>,
     m4v |-> <<".", "m", "4", "v">>,
     png |-> <<".", "p", "n", "g">>,
     jpg |-> <<".", "j", "p", "g">>,
     jpeg |-> <<".", "j", "p", "e", "g">>,
     webp |-> <<".", "w", "e", "b", "p">>,
     txt |-> <<".", "t", "x", "t">>,
     aifm |-> <<".", "a", "i", "f", "m">>,
     aifv |-> <<".", "a", "i", "f", "v">>,
     aifi |-> <<".", "a", "i", "f", "i">>,
     AIFM |-> <<".", "A", "I", "F", "M">>,
     AIFV |-> <<".", "A", "I", "F", "V">>,
     AIFI |-> <<".", "A", "I", "F", "I">>,
     tmp |-> <<".", "t", "m", "p">>]

\* file extensions, without the dot
Ext ==
    [bin |-> <<"b", "i", "n">>,
     jpg |-> <<"j", "p", "g">>,
     mp4 |-> <<"m", "p", "4">>]

\* the values of MIME_BY_EXT
Mime ==
    [wav |-> <<"a", "u", "d", "i", "o", "/", "x", "-", "w", "a", "v">>,
     mp3 |-> <<"a", "u", "d", "i", "o", "/", "m", "p", "e", "g">>,
     flac |-> <<"a", "u", "d", "i", "o", "/", "f", "l", "a", "c">>,
     m4a |-> <<"a", "u", "d", "i", "o", "/", "m", "p", "4">>,
     ogg |-> <<"a", "u", "d", "i", "o", "/", "o", "g", "g">>]

\* entry names and entry-name prefixes the builders write
RelPath ==
    [assets_audio_dot |-> <<"a", "s", "s", "e", "t", "s", "/", "a", "u", "d", "i", "o", ".">>,
     assets_cover_jpg |-> <<"a", "s", "s", "e", "t", "s", "/", "c", "o", "v", "e", "r", ".", "j", "p", "g">>,
     assets_video_dot |-> <<"a", "s", "s", "e", "t", "s", "/", "v", "i", "d", "e", "o", ".">>,
     assets_thumb_dot |-> <<"a", "s", "s", "e", "t", "s", "/", "t", "h", "u", "m", "b", ".">>,
     assets_image |-> <<"a", "s", "s", "e", "t", "s", "/", "i", "m", "a", "g", "e">>,
     payload_audio |-> <<"p", "a", "y", "l", "o", "a", "d", "/", "a", "u", "d", "i", "o">>,
     metadata_declaration_txt |-> <<"m", "e", "t", "a", "d", "a", "t", "a", "/", "d", "e", "c", "l", "a", "r", "a", "t", "i", "o", "n", ".", "t", "x", "t">>,
     metadata_cover |-> <<"m", "e", "t", "a", "d", "a", "t", "a", "/", "c", "o", "v", "e", "r">>]

\* the fixed pieces of _default_declaration's text
Decl ==
    [HEAD |-> <<"A", "I", "F", "X", " ", "D", "e", "c", "l", "a", "r", "a", "t", "i", "o", "n", "\n", "C", "r", "e", "a", "t", "o", "r", ":", " ">>,
     CONTACT |-> <<"\n", "C", "o", "n", "t", "a", "c", "t", ":", " ">>,
     MODE |-> <<"\n", "M", "o", "d", "e", ":", " ">>,
     AI_SYSTEM |-> <<"\n", "A", "I", " ", "S", "y", "s", "t", "e", "m", ":", " ">>,
     UNKNOWN |-> <<"U", "n", "k", "n", "o", "w", "n">>,
     ORIGIN_URL |-> <<"\n", "O", "r", "i", "g", "i", "n", " ", "U", "R", "L", ":", " ">>,
     DECLARED_UTC |-> <<"\n", "D", "e", "c", "l", "a", "r", "e", "d", " ", "U", "T", "C", ":", " ">>]

\* literal values the builders put in a manifest
Value ==
    [sda |-> <<"S", "D", "A">>,
     type_aifv |-> <<"A", "I", "F", "V">>,
     type_aifi |-> <<"A", "I", "F", "I">>,
     version_0 |-> <<"0">>,
     version_0_1 |-> <<"0", ".", "1">>,
     work_type_music |-> <<"m", "u", "s", "i", "c">>]

\* names and values the source spells out
MANIFEST_JSON == <<"m", "a", "n", "i", "f", "e", "s", "t", ".", "j", "s", "o", "n">>
SHA256_NAME == <<"s", "h", "a", "2", "5", "6">>
CANONICAL_EXCLUDES_SELF == <<"c", "a", "n", "o", "n", "i", "c", "a", "l", "_", "e", "x", "c", "l", "u", "d", "e", "s", "_", "s", "e", "l", "f">>
MODE_HUMAN_DIRECTED == <<"h", "u", "m", "a", "n", "-", "d", "i", "r", "e", "c", "t", "e", "d", "-", "a", "i">>
MODE_AI_ASSISTED == <<"a", "i", "-", "a", "s", "s", "i", "s", "t", "e", "d">>
MODE_AI_GENERATED == <<"a", "i", "-", "g", "e", "n", "e", "r", "a", "t", "e", "d">>
AIFX_STANDARD == <<"A", "I", "-", "F", "i", "r", "s", "t", "-", "E", "x", "c", "h", "a", "n", "g", "e">>
AIFX_REPO == <<"h", "t", "t", "p", "s", ":", "/", "/", "g", "i", "t", "h", "u", "b", ".", "c", "o", "m", "/", "a", "i", "-", "f", "i", "r", "s", "t", "-", "e", "x", "c", "h", "a", "n", "g", "e">>
FORMAT_NAME == <<"A", "I", "F", "M">>
FORMAT_VERSION == <<"0", ".", "3">>
AIFX_SDA_001_TEXT ==
    <<"I", " ", "a", "f", "f", "i", "r", "m", " ", "t", "h", "a", "t", " ", "I", " ", "d", "i", "r", "e", "c", "t", "e", "d", " ", "t", "h", "e", " ", "c", "r", "e", "a", "t", "i", "o", "n", " ", "o", "f", " ", "t", "h", "i", "s", " ", "w", "o", "r", "k", " ", "u", "s", "i", "n", "g", " ", "t", "h", "e", " ", "A", "I", " ", "t", "o", "o", "l", "s", " ", "l", "i", "s", "t", "e", "d", " ", "i", "n", " ", "t", "h", "e", " ", "p", "r", "o", "v", "e", "n", "a", "n", "c", "e", " ", "s", "e", "c", "t", "i", "o", "n", ".", " ", "I", " ", "c", "o", "n", "f", "i", "r", "m", " ", "t", "h", "a", "t", " ", "I", " ", "e", "x", "e", "r", "c", "i", "s", "e", "d", " ", "c", "r", "e", "a", "t", "i", "v", "e", " ", "c", "o", "n", "t", "r", "o", "l", " ", "o", "v", "e", "r", " ", "p", "r", "o", "m", "p", "t", "s", ",", " ", "s", "e", "l", "e", "c", "t", "i", "o", "n", ",", " ", "a", "r", "r", "a", "n", "g", "e", "m", "e", "n", "t", ",", " ", "a", "n", "d", " ", "f", "i", "n", "a", "l", " ", "o", "u", "t", "p", "u", "t", ".", " ", "I", " ", "u", "n", "d", "e", "r", "s", "t", "a", "n", "d", " ", "t", "h", "a", "t", " ", "t", "h", "i", "s", " ", "d", "e", "c", "l", "a", "r", "a", "t", "i", "o", "n", " ", "r", "e", "p", "r", "e", "s", "e", "n", "t", "s", " ", "S", "e", "l", "f", "-", "D", "e", "c", "l", "a", "r", "e", "d", " ", "A", "u", "t", "h", "o", "r", "s", "h", "i", "p", " ", "(", "S", "D", "A", ")", " ", "u", "n", "d", "e", "r", " ", "t", "h", "e", " ", "A", "I", "F", "X", " ", "s", "t", "a", "n", "d", "a", "r", "d", ".">>

\* the caller's declared fields, and the names and values a changed container carries
Sample ==
    [title_test |-> <<"T", "e", "s", "t">>,
     staged_a_txt |-> <<"a", ".", "t", "x", "t">>,
     staged_a_b |-> <<"a", "/", "b">>,
     staged_a_c_txt |-> <<"a", "/", "c", ".", "t", "x", "t">>,
     staged_ab_c |-> <<"a", "-", "b", "/", "c">>,
     staged_b |-> <<"b">>,
     title_blank |-> <<" ">>,
     creator_a |-> <<"A">>,
     contact_email |-> <<"a", "@", "b", ".", "c", "o">>,
     contact_not_email |-> <<"n", "o", "b", "o", "d", "y">>,
     mode_other |-> <<"x">>,
     declaration_given |-> <<"I", " ", "m", "a", "d", "e", " ", "t", "h", "i", "s">>,
     tool_name |-> <<"S", "u", "n", "o">>,
     algo_md5 |-> <<"m", "d", "5">>,
     hash_mode_raw |-> <<"r", "a", "w">>,
     name_traversal |-> <<".", ".", "/", "e", "v", "i", "l">>,
     name_absolute |-> <<"/", "e", "t", "c", "/", "x">>,
     name_link |-> <<"a", "s", "s", "e", "t", "s", "/", "l", "i", "n", "k">>,
     name_extra |-> <<"a", "s", "s", "e", "t", "s", "/", "e", "x", "t", "r", "a">>]

(***************************************************************************)
(* Paths, the staging directory and the zip container.                     *)
(***************************************************************************)

\* str.split("/") / PurePath.parts of a relative path
RECURSIVE Split(_)
Split(s) ==
    IF \A i \in DOMAIN s : s[i] # "/" THEN <<s>>
    ELSE LET i == CHOOSE k \in DOMAIN s : s[k] = "/" /\ \A j \in 1..(k - 1) : s[j] # "/"
         IN  <<SubSeq(s, 1, i - 1)>> \o Split(SubSeq(s, i + 1, Len(s)))

RECURSIVE PartsLess(_, _)
PartsLess(p, q) ==
    IF p = <<>> THEN q # <<>>
    ELSE IF q = <<>> THEN FALSE
    ELSE IF p[1] = q[1] THEN PartsLess(Tail(p), Tail(q))
    ELSE StrLess(p[1], q[1])

\* PurePath.__lt__: paths below one root compare by their lists of components
PathLess(a, b) == PartsLess(Split(a), Split(b))

\* sorted([p for p in staging_root.rglob("*") if p.is_file()]), as relative paths
RECURSIVE SortedPaths(_)
SortedPaths(S) ==
    IF S = {} THEN <<>>
    ELSE LET m == CHOOSE x \in S : \A y \in S \ {x} : PathLess(x, y)
         IN  <<m>> \o SortedPaths(S \ {m})

\* (1980, 1, 1, 0, 0, 0), the first date a zip entry can carry; wall-clock times are >= 1
fixed_dt == 0

\* 0o600 and 0o120000 (S_IFLNK)
PERM_0600 == 384
S_IFLNK == 40960

\* a 32-bit ZipInfo.external_attr, held as its two 16-bit halves: hi << 16 | lo
Shl16(hi) == [hi |-> hi, lo |-> 0]

\* external_attr >> 16
Shr16(attr) == attr.hi

\* st_mode of a regular file with permissions 0o644, as zipfile.ZipInfo.from_file reads it
RegularFileMode == 32768 + 420

\* one zip entry: ZipInfo.filename, the stored bytes, ZipInfo.date_time, ZipInfo.external_attr
Entry(name, data, date_time, external_attr) ==
    [name |-> name, data |-> data, date_time |-> date_time, external_attr |-> external_attr]

\* ZipFile.writestr(name: str, data): date_time is the wall clock, external_attr 0o600 << 16
writestr(name, data, clock) == Entry(name, data, clock, Shl16(PERM_0600))

\* ZipFile.write(path, arcname): date_time is the file's mtime, external_attr its st_mode << 16
zip_write(name, data, mtime) == Entry(name, data, mtime, Shl16(RegularFileMode))

\* ZipFile.namelist()
namelist(z) == [i \in DOMAIN z |-> z[i].name]

InZip(z, name) == \E i \in DOMAIN z : z[i].name = name

\* ZipFile.read(name): the bytes of the last entry of that name (KeyError when there is none)
zread(z, name) ==
    z[CHOOSE i \in DOMAIN z : z[i].name = name /\ \A j \in DOMAIN z : z[j].name = name => j <= i].data

\* write_zip_deterministic: entries in sorted path order, fixed date, fixed attributes
write_zip_deterministic(staging) ==
    LET files == SortedPaths(DOMAIN staging)
    IN  [i \in DOMAIN files |->
            Entry(files[i], staging[files[i]], fixed_dt, Shl16(PERM_0600))]

(***************************************************************************)
(* Build entrypoints.  A build returns [ok, error, zip]: the entries of    *)
(* the container it wrote, or the exception it raised.                     *)
(***************************************************************************)
Built(z) == [ok |-> TRUE, error |-> "", zip |-> z]
Raised(e) == [ok |-> FALSE, error |-> e, zip |-> <<>>]

\* Path.suffix.lower().lstrip("."): the suffix is "" or "." followed by the extension
ExtOf(suffix) == IF suffix = <<>> THEN <<>> ELSE Tail(Lower(suffix))

\* _is_email: re.match(r"^[^@\s]+@[^@\s]+\.[^@\s]+$", s.strip())
IsEmail(s) ==
    LET t == Strip(s)
    IN  /\ \A k \in DOMAIN t : ~IsSpace(t[k])
        /\ Cardinality({k \in DOMAIN t : t[k] = "@"}) = 1
        /\ \E i, j \in DOMAIN t :
              /\ t[i] = "@" /\ t[j] = "."
              /\ 1 < i /\ i + 1 < j /\ j < Len(t)

\* a packager that hashes the manifest with its own entry left in: the round trip must
\* fail with it
StripSelfEntry_kept(manifest) == DeepCopy(manifest)

\* the manifest's hash-input view as the packagers build it: a deep copy without
\* integrity.hashed_files["manifest.json"]
StripSelfEntry(manifest) ==
    LET m2 == DeepCopy(manifest)
        integrity == OrElse(Get(m2, Key.integrity), EmptyObj)
        hf == OrElse(Get(integrity, Key.hashed_files), EmptyObj)
    IN  IF HasKey(hf, MANIFEST_JSON)
        THEN Put(m2, Key.integrity, Put(integrity, Key.hashed_files, Del(hf, MANIFEST_JSON)))
        ELSE m2

\* ------------------------------------------------------------------ build_aifm
build_aifm(inp, clock) ==
    LET audio_ext == IF ExtOf(inp.ext) = <<>> THEN Ext.bin ELSE ExtOf(inp.ext)
        audio_rel == RelPath.assets_audio_dot \o audio_ext
        cover_rel == RelPath.assets_cover_jpg
        assets == IF inp.second.present
                  THEN Obj(<< <<Key.audio, Str(audio_rel)>>, <<Key.cover, Str(cover_rel)>> >>)
                  ELSE Obj(<< <<Key.audio, Str(audio_rel)>> >>)
        manifest0 == Obj(<<
            <<Key.aifx, Obj(<< <<Key.version, Str(Value.version_0)>> >>)>>,
            <<Key.work, Obj(<< <<Key.title, Str(Strip(inp.title))>> >>)>>,
            <<Key.creator, Obj(<< <<Key.name, Str(Strip(inp.creator_name))>>,
                                <<Key.contact, Str(Strip(inp.creator_contact))>> >>)>>,
            <<Key.mode, Str(Strip(inp.mode))>>,
            <<Key.ai_generated, True>>,
            <<Key.verification_tier, Str(Value.sda)>>,
            <<Key.declaration, Str(Strip(inp.declaration))>>,
            <<Key.format, Str(FORMAT_NAME)>>,
            <<Key.assets, assets>> >>)
        hashed0 == Obj(<< <<audio_rel, Obj(<< <<Key.sha256, Sha256(inp.data)>> >>)>> >>)
        hashed_files == IF inp.second.present
                        THEN Put(hashed0, cover_rel, Obj(<< <<Key.sha256, Sha256(inp.second.data)>> >>))
                        ELSE hashed0
        manifest1 == Put(manifest0, Key.integrity, Obj(<<
            <<Key.algorithm, Str(SHA256_NAME)>>,
            <<Key.manifest_hash_mode, Str(CANONICAL_EXCLUDES_SELF)>>,
            <<Key.hashed_files, hashed_files>> >>))
        manifest_hash == Sha256(canonical_manifest_bytes_compact(StripSelfEntry(manifest1)))
        manifest == Put(manifest1, Key.integrity,
                        Put(Get(manifest1, Key.integrity), Key.hashed_files,
                            Put(hashed_files, MANIFEST_JSON,
                                Obj(<< <<Key.sha256, manifest_hash>> >>))))
        manifest_bytes == JsonDumps(manifest, FALSE, "indent2")
    IN  IF ~inp.exists THEN Raised("FileNotFoundError")
        ELSE Built(<<writestr(MANIFEST_JSON, manifest_bytes, clock),
                     writestr(audio_rel, inp.data, clock)>>
                   \o (IF inp.second.present
                       THEN <<writestr(cover_rel, inp.second.data, clock)>> ELSE <<>>))

\* ------------------------------------------------------------------ build_aifv
ALLOWED_VIDEO_EXTS == {Tail(Dot.mp4), Tail(Dot.mov), Tail(Dot.webm), Tail(Dot.m4v)}
ALLOWED_THUMB_EXTS == {Tail(Dot.jpg), Tail(Dot.jpeg), Tail(Dot.png), Tail(Dot.webp)}

\* ProvenanceTool.to_json (no version given)
ProvenanceTool_to_json(name) == Obj(<< <<Key.name, Str(Strip(name))>> >>)

build_aifv(inp, clock) ==
    LET title == Strip(inp.title)
        creator_name == Strip(inp.creator_name)
        creator_contact == Strip(inp.creator_contact)
        mode == Strip(inp.mode)
        vext == IF ExtOf(inp.ext) = <<>> THEN Ext.mp4 ELSE ExtOf(inp.ext)
        thumb_ext == IF ExtOf(inp.second.ext) = <<>> THEN Ext.jpg ELSE ExtOf(inp.second.ext)
        asset_video_rel == RelPath.assets_video_dot \o vext
        asset_thumb_rel == RelPath.assets_thumb_dot \o thumb_ext
        manifest0 == Obj(<<
            <<Key.aifx_version, Str(Value.version_0_1)>>,
            <<Key.type, Str(Value.type_aifv)>>,
            <<Key.work, Obj(<< <<Key.title, Str(title)>> >>)>>,
            <<Key.creator, Obj(<< <<Key.name, Str(creator_name)>>,
                                <<Key.contact, Str(creator_contact)>> >>)>>,
            <<Key.mode, Str(mode)>>,
            <<Key.verification_tier, Str(Value.sda)>>,
            <<Key.ai_generated, True>>,
            <<Key.declaration, Str(AIFX_SDA_001_TEXT)>>,
            <<Key.provenance,
              Obj(<< <<Key.primary_tool, ProvenanceTool_to_json(inp.primary_tool)>> >>)>>,
            <<Key.video, EmptyObj>>,
            <<Key.integrity, Obj(<<
                <<Key.algorithm, Str(SHA256_NAME)>>,
                <<Key.manifest_hash_mode, Str(CANONICAL_EXCLUDES_SELF)>>,
                <<Key.hashed_files, Obj(<<
                    <<asset_video_rel, Obj(<< <<Key.sha256, Sha256(inp.data)>> >>)>>,
                    <<asset_thumb_rel, Obj(<< <<Key.sha256, Sha256(inp.second.data)>> >>)>>,
                    <<MANIFEST_JSON, Obj(<< <<Key.sha256, EmptyStr>> >>)>> >>)>> >>)>> >>)
        manifest_hash == Sha256(canonical_manifest_bytes_compact(StripSelfEntry(manifest0)))
        integrity == Get(manifest0, Key.integrity)
        manifest == Put(manifest0, Key.integrity,
                        Put(integrity, Key.hashed_files,
                            Put(Get(integrity, Key.hashed_files), MANIFEST_JSON,
                                Obj(<< <<Key.sha256, manifest_hash>> >>))))
        manifest_bytes == JsonDumps(manifest, FALSE, "indent2")
    IN  IF ~inp.exists \/ ~inp.second.present THEN Raised("FileNotFoundError")
        ELSE IF title = <<>> \/ creator_name = <<>> \/ creator_contact = <<>> \/ mode = <<>>
        THEN Raised("ValueError")
        ELSE IF Strip(inp.primary_tool) = <<>> THEN Raised("ValueError")
        ELSE IF vext \notin ALLOWED_VIDEO_EXTS \/ thumb_ext \notin ALLOWED_THUMB_EXTS
        THEN Raised("ValueError")
        ELSE Built(<<writestr(MANIFEST_JSON, manifest_bytes, clock),
                     writestr(asset_video_rel, inp.data, clock),
                     writestr(asset_thumb_rel, inp.second.data, clock)>>)

\* ------------------------------------------------------------------ build_aifi
ALLOWED_EXTS == {Dot.png, Dot.jpg, Dot.jpeg, Dot.webp}

build_aifi(inp, clock) ==
    LET ext == Lower(inp.ext)
        rel_image == RelPath.assets_image \o ext
        image_hash == Sha256(inp.data)
        manifest0 == Obj(<<
            <<Key.aifx_version, Str(Value.version_0_1)>>,
            <<Key.type, Str(Value.type_aifi)>>,
            <<Key.work, Obj(<< <<Key.title, Str(inp.title)>> >>)>>,
            <<Key.creator, Obj(<< <<Key.name, Str(inp.creator_name)>>,
                                <<Key.contact, Str(inp.creator_contact)>> >>)>>,
            <<Key.mode, Str(inp.mode)>>,
            <<Key.verification_tier, Str(Value.sda)>>,
            <<Key.ai_generated, True>>,
            <<Key.declaration, Str(AIFX_SDA_001_TEXT)>>,
            <<Key.assets, Obj(<< <<rel_image, Obj(<< <<Key.sha256, image_hash>> >>)>> >>)>>,
            <<Key.provenance,
              Obj(<< <<Key.primary_tool, Obj(<< <<Key.name, Str(Strip(inp.primary_tool))>> >>)>> >>)>>,
            <<Key.integrity, Obj(<<
                <<Key.algorithm, Str(SHA256_NAME)>>,
                <<Key.manifest_hash_mode, Str(CANONICAL_EXCLUDES_SELF)>>,
                <<Key.hashed_files, Obj(<<
                    <<rel_image, Obj(<< <<Key.sha256, image_hash>> >>)>>,
                    <<MANIFEST_JSON, Obj(<< <<Key.sha256, EmptyStr>> >>)>> >>)>> >>)>> >>)
        manifest_hash == Sha256(canonical_manifest_bytes_compact(StripSelfEntry(manifest0)))
        integrity == Get(manifest0, Key.integrity)
        manifest == Put(manifest0, Key.integrity,
                        Put(integrity, Key.hashed_files,
                            Put(Get(integrity, Key.hashed_files), MANIFEST_JSON,
                                Obj(<< <<Key.sha256, manifest_hash>> >>))))
        \* tmp_dir: the copied image keeps the source's mtime (copy2), manifest.json is new
        tmp_dir == (rel_image :> [data |-> inp.data, mtime |-> inp.mtime])
                   @@ (MANIFEST_JSON :> [data |-> JsonDumps(manifest, FALSE, "indent2"),
                                         mtime |-> clock])
        files == SortedPaths(DOMAIN tmp_dir)
    IN  IF ~inp.exists THEN Raised("FileNotFoundError")
        ELSE IF ext \notin ALLOWED_EXTS THEN Raised("ValueError")
        ELSE IF Strip(inp.title) = <<>> \/ Strip(inp.creator_name) = <<>>
                \/ Strip(inp.creator_contact) = <<>> \/ Strip(inp.primary_tool) = <<>>
        THEN Raised("ValueError")
        ELSE Built([i \in DOMAIN files |->
                      zip_write(files[i], tmp_dir[files[i]].data, tmp_dir[files[i]].mtime)])

\* ------------------------------------------------- converter_base.build_package
RECURSIVE HashStaged_with_manifest(_, _)
\* a variant of step 1 that does not skip manifest.json
HashStaged_with_manifest(files, staging) ==
    IF files = <<>> THEN EmptyObj
    ELSE LET rel == files[Len(files)]
             rest == HashStaged_with_manifest(SubSeq(files, 1, Len(files) - 1), staging)
             hs == sha256_file(staging[rel])
         IN  Put(rest, rel, Obj(<< <<Key.sha256, hs[1]>>, <<Key.bytes, Num(hs[2])>> >>))

RECURSIVE HashStaged(_, _)
\* step 1 of compute_integrity_canonical_excludes_self: every staged file but manifest.json
HashStaged(files, staging) ==
    IF files = <<>> THEN EmptyObj
    ELSE LET rel == files[Len(files)]
             rest == HashStaged(SubSeq(files, 1, Len(files) - 1), staging)
             hs == sha256_file(staging[rel])
         IN  IF rel = MANIFEST_JSON THEN rest
             ELSE Put(rest, rel, Obj(<< <<Key.sha256, hs[1]>>, <<Key.bytes, Num(hs[2])>> >>))

\* the bytes whose digest compute_integrity_canonical_excludes_self stores for manifest.json
build_package_hash_input(staging, manifest) ==
    LET hashed == HashStaged(SortedPaths(DOMAIN staging), staging)
        integrity_for_hash == Put(OrElse(Get(manifest, Key.integrity), EmptyObj),
                                  Key.hashed_files, hashed)
        manifest_for_hash == Put(manifest, Key.integrity, integrity_for_hash)
    IN  JsonDumps(manifest_for_hash, TRUE, "compact")

\* a variant that stops after step 1 and records no entry for manifest.json
compute_integrity_without_self(staging, manifest) ==
    HashStaged(SortedPaths(DOMAIN staging), staging)

compute_integrity_canonical_excludes_self(staging, manifest) ==
    LET hashed == HashStaged(SortedPaths(DOMAIN staging), staging)
        canonical_bytes == build_package_hash_input(staging, manifest)
        mh == Sha256(canonical_bytes)
    IN  Put(hashed, MANIFEST_JSON,
            Obj(<< <<Key.sha256, mh>>, <<Key.bytes, Num(ByteLen(canonical_bytes))>> >>))

\* write_manifest: json.dumps(manifest, indent=2, ensure_ascii=False) + "\n"
write_manifest(staging, manifest) ==
    (MANIFEST_JSON :> JsonDumps(manifest, FALSE, "indent2nl")) @@ staging

build_package(staging0, manifest) ==
    LET staging1 == write_manifest(staging0, manifest)
        hashed_files == compute_integrity_canonical_excludes_self(staging1, manifest)
        final_manifest == Put(manifest, Key.integrity,
                              Put(OrElse(Get(manifest, Key.integrity), EmptyObj),
                                  Key.hashed_files, hashed_files))
        staging2 == write_manifest(staging1, final_manifest)
    IN  Built(write_zip_deterministic(staging2))

\* ------------------------------------------------ aifm_converter.convert_to_aifm
ALLOWED_AUDIO_EXTS == {Dot.wav, Dot.mp3, Dot.flac, Dot.m4a, Dot.ogg}
ALLOWED_MODES == {MODE_HUMAN_DIRECTED, MODE_AI_ASSISTED, MODE_AI_GENERATED}

MIME_BY_EXT ==
    (Dot.wav :> Mime.wav) @@ (Dot.mp3 :> Mime.mp3) @@ (Dot.flac :> Mime.flac)
    @@ (Dot.m4a :> Mime.m4a) @@ (Dot.ogg :> Mime.ogg)

\* datetime.now(timezone.utc).isoformat(timespec="seconds"): one string per second of the clock
utc_now_iso(clock) == <<"T">> \o Digits(clock)

\* _default_declaration with ai_system = None and origin_url = None
default_declaration(creator_name, creator_contact, mode, clock) ==
    Decl.HEAD \o creator_name \o Decl.CONTACT \o creator_contact \o Decl.MODE \o mode
    \o Decl.AI_SYSTEM \o Decl.UNKNOWN \o Decl.ORIGIN_URL \o Decl.DECLARED_UTC
    \o utc_now_iso(clock) \o <<"\n">>

convert_to_aifm(inp, clock) ==
    LET ext == Lower(inp.ext)
        mode == Strip(inp.mode)
        title == Strip(inp.title)
        payload_rel == RelPath.payload_audio \o ext
        decl0 == Strip(inp.declaration)
        decl == IF decl0 = <<>>
                THEN default_declaration(Strip(inp.creator_name), Strip(inp.creator_contact),
                                         mode, clock)
                ELSE decl0
        cover_rel == RelPath.metadata_cover \o Lower(inp.second.ext)
        staging == (payload_rel :> inp.data)
                   @@ (RelPath.metadata_declaration_txt :> Text(decl))
                   @@ (IF inp.second.present THEN (cover_rel :> inp.second.data) ELSE <<>>)
        refs0 == Obj(<< <<Key.declaration_text, Str(RelPath.metadata_declaration_txt)>> >>)
        metadata_refs == IF inp.second.present
                         THEN Put(refs0, Key.cover_image, Str(cover_rel))
                         ELSE refs0
        manifest == Obj(<<
            <<Key.aifx, Obj(<<
                <<Key.governance, Obj(<< <<Key.standard, Str(AIFX_STANDARD)>>,
                                       <<Key.repo, Str(AIFX_REPO)>> >>)>>,
                <<Key.format, Str(FORMAT_NAME)>>,
                <<Key.version, Str(FORMAT_VERSION)>> >>)>>,
            <<Key.created_utc, Str(utc_now_iso(clock))>>,
            <<Key.origin, Obj(<< <<Key.ai_platform, EmptyStr>>, <<Key.primary_url, EmptyStr>> >>)>>,
            <<Key.work, Obj(<< <<Key.title, Str(title)>>, <<Key.type, Str(Value.work_type_music)>> >>)>>,
            <<Key.creator, Obj(<< <<Key.name, Str(Strip(inp.creator_name))>>,
                                <<Key.contact, Str(Strip(inp.creator_contact))>> >>)>>,
            <<Key.ai, Obj(<< <<Key.system, EmptyStr>> >>)>>,
            <<Key.mode, Str(mode)>>,
            <<Key.verification, Obj(<< <<Key.tier, Str(Value.sda)>> >>)>>,
            <<Key.payload, Obj(<< <<Key.primary, Str(payload_rel)>>,
                                <<Key.mime, Str(MIME_BY_EXT[ext])>> >>)>>,
            <<Key.links, Arr(<<>>)>>,
            <<Key.metadata_refs, metadata_refs>>,
            <<Key.integrity, Obj(<<
                <<Key.algorithm, Str(SHA256_NAME)>>,
                <<Key.hashed_files, EmptyObj>>,
                <<Key.manifest_hash_mode, Str(CANONICAL_EXCLUDES_SELF)>> >>)>> >>)
    IN  IF ~inp.exists THEN Raised("FileNotFoundError")
        ELSE IF ext \notin ALLOWED_AUDIO_EXTS THEN Raised("ValueError")
        ELSE IF Strip(inp.creator_name) = <<>> \/ Strip(inp.creator_contact) = <<>>
        THEN Raised("ValueError")
        ELSE IF ~IsEmail(inp.creator_contact) THEN Raised("ValueError")
        ELSE IF mode \notin ALLOWED_MODES THEN Raised("ValueError")
        ELSE IF title = <<>> THEN Raised("ValueError")
        ELSE build_package(staging, manifest)

(***************************************************************************)
(* core/validation/validator.py                                            *)
(***************************************************************************)

\* one entry of results["errors"]: the message and the path it names (<<>> when none)
Err(msg, path) == [msg |-> msg, path |-> path]

\* one step of the integrity pass that touches a digest
Ev(op, path) == [op |-> op, path |-> path]

\* (x or "").strip() and (x or "").lower() raise AttributeError on a truthy non-str
NotStrippable(v) == Truthy(v) /\ ~IsStrVal(v)

\* (x or "").strip()
StripV(v) == IF ~Truthy(v) THEN EmptyStr ELSE IF v[1] = "s" THEN Str(Strip(v[2])) ELSE v

\* (x or "").lower()
LowerV(v) == IF ~Truthy(v) THEN EmptyStr ELSE IF v[1] = "s" THEN Str(Lower(v[2])) ELSE v

\* (d.get(k) or {}) raises AttributeError when a later .get meets a truthy non-dict
NotGettable(v) == Truthy(v) /\ ~IsDict(v)

\* _verify_integrity's result: the ValidationError it raised (msg "" when it returned),
\* whether another exception escaped it, and the digest operations it performed in order
Verdict(err, crashed, log) == [err |-> err, crashed |-> crashed, log |-> log]
NoErr == Err("", <<>>)

\* the loop over hashed_files.items(), from member i on: fails at the first bad entry
RECURSIVE verify_entries(_, _, _, _)
verify_entries(z, members, i, log) ==
    IF i > Len(members) THEN Verdict(NoErr, FALSE, log)
    ELSE LET relpath == members[i][1]
             meta == members[i][2]
             expected == Get(meta, Key.sha256)
         IN  IF ~IsDict(meta)
             THEN Verdict(Err("integrity.hashed_files[] is not an object", relpath), FALSE, log)
             ELSE IF ~Truthy(expected)
             THEN Verdict(Err("Missing sha256 for", relpath), FALSE, log)
             ELSE IF relpath = MANIFEST_JSON
             THEN verify_entries(z, members, i + 1, log)
             ELSE IF ~InZip(z, relpath)
             THEN Verdict(Err("File not found in package:", relpath), FALSE, log)
             ELSE LET actual == Sha256(zread(z, relpath))
                      log2 == log \o <<Ev("hash", relpath), Ev("compare", relpath)>>
                  IN  IF actual # expected
                      THEN Verdict(Err("Hash mismatch for", relpath), FALSE, log2)
                      ELSE verify_entries(z, members, i + 1, log2)

\* the bytes _verify_integrity hashes for manifest.json in mode canonical_excludes_self
validator_hash_input(manifest) ==
    LET m2 == DeepCopy(manifest)
        integrity == OrElse(Get(m2, Key.integrity), EmptyObj)
        hf == OrElse(Get(integrity, Key.hashed_files), EmptyObj)
    IN  canonical_manifest_bytes_compact(
            IF HasKey(hf, MANIFEST_JSON)
            THEN Put(m2, Key.integrity, Put(integrity, Key.hashed_files, Del(hf, MANIFEST_JSON)))
            ELSE m2)

verify_integrity(z, manifest) ==
    LET integrity == OrElse(Get(manifest, Key.integrity), EmptyObj)
        algorithm == IF IsDict(integrity) THEN Get(integrity, Key.algorithm) ELSE None
        algo == LowerV(algorithm)
        hashed_files == IF IsDict(integrity)
                        THEN OrElse(Get(integrity, Key.hashed_files), EmptyObj) ELSE EmptyObj
        mode == IF IsDict(integrity)
                THEN OrElse(Get(integrity, Key.manifest_hash_mode), EmptyStr) ELSE EmptyStr
        entries == verify_entries(z, hashed_files[2], 1, <<>>)
        expected_manifest_hash == Get(Get(hashed_files, MANIFEST_JSON), Key.sha256)
        actual_manifest_hash ==
            IF mode = Str(CANONICAL_EXCLUDES_SELF)
            THEN Sha256(validator_hash_input(manifest))
            ELSE Sha256(zread(z, MANIFEST_JSON))
        log2 == entries.log \o <<Ev("hash", MANIFEST_JSON), Ev("compare", MANIFEST_JSON)>>
    IN  IF ~IsDict(integrity) \/ NotStrippable(algorithm)
        THEN Verdict(NoErr, TRUE, <<>>)
        ELSE IF ~Truthy(integrity)
        THEN Verdict(Err("manifest.integrity missing", <<>>), FALSE, <<>>)
        ELSE IF algo # Str(SHA256_NAME)
        THEN Verdict(Err("Unsupported integrity.algorithm:", <<>>), FALSE, <<>>)
        ELSE IF ~IsDict(hashed_files) \/ ~Truthy(hashed_files)
        THEN Verdict(Err("integrity.hashed_files missing or empty", <<>>), FALSE, <<>>)
        ELSE IF entries.err # NoErr THEN entries
        ELSE IF ~HasKey(hashed_files, MANIFEST_JSON)
        THEN Verdict(Err("integrity.hashed_files['manifest.json'] missing", <<>>),
                     FALSE, entries.log)
        ELSE IF ~Truthy(expected_manifest_hash)
        THEN Verdict(Err("integrity.hashed_files['manifest.json'].sha256 missing", <<>>),
                     FALSE, entries.log)
        ELSE IF actual_manifest_hash # expected_manifest_hash
        THEN Verdict(Err("Hash mismatch for", MANIFEST_JSON), FALSE, log2)
        ELSE Verdict(NoErr, FALSE, log2)

\* _get_aifx_version
get_aifx_version(manifest) ==
    LET aifx == OrElse(Get(manifest, Key.aifx), EmptyObj)
        ver == OrElse(OrElse(Get(aifx, Key.version), Get(manifest, Key.version)), EmptyStr)
    IN  IF ver[1] = "s" THEN Str(Strip(ver[2]))
        ELSE IF ver[1] = "n" THEN Str(Digits(ver[2])) ELSE ver

\* _bool_is_true
bool_is_true(v) == v = True

\* results["checks"]: "unset" for a key the call never wrote
NoChecks ==
    [manifest |-> "unset", aifx_version |-> None, work_title |-> "unset", author |-> "unset",
     contact |-> "unset", ai_declared |-> "unset", integrity |-> "unset"]

PyBool(b) == IF b THEN "True" ELSE "False"

\* what a call of validate_aifx_package produced: outcome "returned" with the report,
\* or "raised" (ValidationError before the report exists); log is the integrity pass's
\* sequence of digest operations
Report(outcome, valid, errors, warnings, checks, log) ==
    [outcome |-> outcome, valid |-> valid, errors |-> errors, warnings |-> warnings,
     checks |-> checks, log |-> log]

NoReport == Report("none", FALSE, <<>>, <<>>, NoChecks, <<>>)

\* an exception path that records no error: valid and errors must disagree with it
FailedReport_silent(errors, checks, log) ==
    Report("returned", FALSE, errors, <<>>, [checks EXCEPT !.manifest = "failed"], log)

\* the `except Exception` path: valid False, checks.manifest "failed", one more error
FailedReport(errors, checks, log) ==
    Report("returned", FALSE, errors \o <<Err("manifest: failed", <<>>)>>, <<>>,
           [checks EXCEPT !.manifest = "failed"], log)

validate_aifx_package(exists, z) ==
    IF ~exists THEN Report("raised", FALSE, <<>>, <<>>, NoChecks, <<>>)
    ELSE IF ~InZip(z, MANIFEST_JSON)
    THEN Report("returned", FALSE, <<Err("manifest.json missing", <<>>)>>, <<>>,
                [NoChecks EXCEPT !.manifest = "missing"], <<>>)
    ELSE IF ~IsJson(zread(z, MANIFEST_JSON)) THEN FailedReport(<<>>, NoChecks, <<>>)
    ELSE
    LET manifest == JsonLoads(zread(z, MANIFEST_JSON))
        checks0 == [NoChecks EXCEPT !.manifest = "ok"]
        \* --- Basic version ---
        aifx_version == get_aifx_version(manifest)
        checks1 == [checks0 EXCEPT !.aifx_version =
                        IF Truthy(aifx_version) THEN aifx_version ELSE Str(<<"u", "n", "k", "n", "o", "w", "n">>)]
        \* --- Author / Creator ---
        author == IF Get(manifest, Key.author)[1] = "s"
                  THEN Str(Strip(Get(manifest, Key.author)[2])) ELSE EmptyStr
        creator == OrElse(Get(manifest, Key.creator), EmptyObj)
        creator_name == IF IsDict(creator) THEN StripV(Get(creator, Key.name)) ELSE EmptyStr
        creator_contact == IF IsDict(creator) THEN StripV(Get(creator, Key.contact)) ELSE EmptyStr
        work == OrElse(Get(manifest, Key.work), EmptyObj)
        title == IF IsDict(work) THEN StripV(Get(work, Key.title)) ELSE EmptyStr
        crash0 == ~IsDict(manifest) \/ NotGettable(Get(manifest, Key.aifx))
        crash1 == \/ (IsDict(creator) /\ (NotStrippable(Get(creator, Key.name))
                                          \/ NotStrippable(Get(creator, Key.contact))))
                  \/ (IsDict(work) /\ NotStrippable(Get(work, Key.title)))
        title_ok == Truthy(title)
        author_ok == Truthy(author) \/ Truthy(creator_name)
        contact_ok == Truthy(creator_contact)
        errors1 == (IF title_ok THEN <<>> ELSE <<Err("work.title missing (required)", <<>>)>>)
                   \o (IF author_ok THEN <<>> ELSE <<Err("author missing", <<>>)>>)
                   \o (IF contact_ok THEN <<>>
                       ELSE <<Err("creator.contact missing (email required)", <<>>)>>)
        checks2 == [checks1 EXCEPT !.work_title = PyBool(title_ok), !.author = PyBool(author_ok),
                                   !.contact = PyBool(contact_ok)]
        \* --- AI declaration ---
        ai_generated == Get(manifest, Key.ai_generated)
        crash2 == NotStrippable(Get(manifest, Key.mode))
        mode == StripV(Get(manifest, Key.mode))
        ai_ok == bool_is_true(ai_generated)
                 \/ mode \in {Str(MODE_HUMAN_DIRECTED), Str(MODE_AI_ASSISTED), Str(MODE_AI_GENERATED)}
        errors2 == errors1 \o (IF ai_ok THEN <<>> ELSE <<Err("ai declaration missing", <<>>)>>)
        checks3 == [checks2 EXCEPT !.ai_declared = PyBool(ai_ok)]
        \* --- Integrity verification ---
        v == verify_integrity(z, manifest)
        errors3 == errors2 \o (IF v.err = NoErr THEN <<>> ELSE <<v.err>>)
        checks4 == [checks3 EXCEPT !.integrity = IF v.err = NoErr THEN "ok" ELSE "fail"]
    IN  IF crash0 THEN FailedReport(<<>>, checks0, <<>>)
        ELSE IF crash1 THEN FailedReport(<<>>, checks1, <<>>)
        ELSE IF crash2 THEN FailedReport(errors1, checks2, <<>>)
        ELSE IF v.crashed THEN FailedReport(errors2, checks3, v.log)
        ELSE Report("returned", Len(errors3) = 0, errors3, <<>>, checks4, v.log)

(***************************************************************************)
(* core/validation/verify_aifm.py                                          *)
(***************************************************************************)

\* CheckResult(ok, path, reason)
CheckResult(ok, path, reason) == [ok |-> ok, path |-> path, reason |-> reason]

\* canonical_manifest_bytes(manifest, "canonical_excludes_self"): a copy without the
\* manifest.json entry, dumped with indent=2 in the key order of the manifest as read
canonical_manifest_bytes(manifest) ==
    LET m == DeepCopy(manifest)
        integrity == Get(m, Key.integrity)
        hf == IF IsDict(integrity) THEN Get(integrity, Key.hashed_files) ELSE None
    IN  JsonDumps(IF IsDict(hf)
                  THEN Put(m, Key.integrity, Put(integrity, Key.hashed_files, Del(hf, MANIFEST_JSON)))
                  ELSE m,
                  FALSE, "indent2")

\* len(expected_hash) for (info.get("sha256") or "").strip().lower()
HexLen(v) == IF v[1] = "h" THEN 64 ELSE Len(v[2])

\* a variant of the loop body that compares digests and ignores byte lengths
verify_member_digest_only(z, manifest, mode, member, info) ==
    LET expected_hash == LowerV(StripV(Get(info, Key.sha256)))
    IN  CheckResult(IF member = MANIFEST_JSON
                    THEN Sha256(canonical_manifest_bytes(manifest)) = expected_hash
                    ELSE InZip(z, member) /\ Sha256(zread(z, member)) = expected_hash,
                    member, "")

\* the body of verify's loop for one member of hashed_files
verify_member(z, manifest, mode, member, info) ==
    LET sha == Get(info, Key.sha256)
        expected_hash == LowerV(StripV(sha))
        expected_bytes == Get(info, Key.bytes)
        canonical == canonical_manifest_bytes(manifest)
        data == zread(z, member)
    IN  IF ~IsDict(info) THEN CheckResult(FALSE, member, "hash record is not an object")
        ELSE IF ~Truthy(expected_hash) \/ HexLen(expected_hash) # 64
        THEN CheckResult(FALSE, member, "missing/invalid expected sha256")
        ELSE IF ~IsInt(expected_bytes) \/ expected_bytes[2] < 0
        THEN CheckResult(FALSE, member, "missing/invalid expected bytes")
        ELSE IF member = MANIFEST_JSON
        THEN IF mode # Str(CANONICAL_EXCLUDES_SELF)
             THEN CheckResult(FALSE, member, "unsupported manifest_hash_mode")
             ELSE IF Sha256(canonical) # expected_hash
             THEN CheckResult(FALSE, member, "sha256 mismatch")
             ELSE IF ByteLen(zread(z, MANIFEST_JSON)) # expected_bytes[2]
             THEN CheckResult(TRUE, member, "OK (bytes differ)")
             ELSE CheckResult(TRUE, member, "")
        ELSE IF ~InZip(z, member) THEN CheckResult(FALSE, member, "missing from container")
        ELSE IF ByteLen(data) # expected_bytes[2]
        THEN CheckResult(FALSE, member, "bytes mismatch")
        ELSE IF Sha256(data) # expected_hash
        THEN CheckResult(FALSE, member, "sha256 mismatch")
        ELSE CheckResult(TRUE, member, "")

\* what a call of verify produced: "returned" with (ok, results), or "raised"
VerifyResult(outcome, ok, results) == [outcome |-> outcome, ok |-> ok, results |-> results]
NoVerify == VerifyResult("none", FALSE, <<>>)

verify(exists, z) ==
    IF ~exists \/ ~InZip(z, MANIFEST_JSON) \/ ~IsJson(zread(z, MANIFEST_JSON))
    THEN VerifyResult("raised", FALSE, <<>>)
    ELSE
    LET manifest == JsonLoads(zread(z, MANIFEST_JSON))
        integrity == OrElse(Get(manifest, Key.integrity), EmptyObj)
        algorithm == Get(integrity, Key.algorithm)
        algo == LowerV(algorithm)
        hashed_files == OrElse(Get(integrity, Key.hashed_files), EmptyObj)
        mode == OrElse(Get(integrity, Key.manifest_hash_mode), EmptyStr)
        results == [i \in DOMAIN hashed_files[2] |->
                       verify_member(z, manifest, mode, hashed_files[2][i][1],
                                     hashed_files[2][i][2])]
        \* (info.get("sha256") or "").strip() raises AttributeError on a truthy non-str
        crash == \E i \in DOMAIN hashed_files[2] :
                    /\ IsDict(hashed_files[2][i][2])
                    /\ NotStrippable(Get(hashed_files[2][i][2], Key.sha256))
    IN  IF ~IsDict(manifest) \/ ~IsDict(integrity) \/ NotStrippable(algorithm)
        THEN VerifyResult("raised", FALSE, <<>>)
        ELSE IF algo # Str(SHA256_NAME) THEN VerifyResult("raised", FALSE, <<>>)
        ELSE IF ~IsDict(hashed_files) \/ ~Truthy(hashed_files)
        THEN VerifyResult("raised", FALSE, <<>>)
        ELSE IF crash THEN VerifyResult("raised", FALSE, <<>>)
        ELSE VerifyResult("returned", \A i \in DOMAIN results : results[i].ok, results)

(***************************************************************************)
(* The state machine: a caller's inputs, the wall clock, the container at  *)
(* the output path, and the results of the calls made on it.               *)
(***************************************************************************)
VARIABLES
    now,          \* the wall clock, in seconds
    inputs,       \* the source asset(s) on disk and the declared fields of the caller
    out_exists,   \* whether a file exists at the output path
    container,    \* the entries of the zip file at the output path
    last_build,   \* [ep, ok, error, zip]: the last build call and the container it wrote
    edits,        \* what was changed in the container since it was built
    report,       \* validate_aifx_package's result on the container as it is now
    vresult,      \* verify_aifm.verify's result on the container as it is now
    earlier,      \* the reports of the validate calls made before the one in report
    dirs,         \* the directories that exist on disk
    files,        \* the archive files on disk: path -> what was written to it
    staged,       \* the staging directories on disk: name -> the files below it
    calls,        \* the build calls in progress, step by step
    faults,       \* how many I/O operations have failed
    checked,      \* the last _is_unsafe_path call: the name given and the answer
    aifv,         \* the last validate_aifv call: the archive given and what it returned
    pkg,          \* a staging directory, the caller's manifest and the build_package calls on them
    run           \* one build call whose source file another process writes to meanwhile

\* the file system under the build calls that run step by step
fsvars == <<dirs, files, staged, calls, faults>>

\* the calls examined one at a time
unitvars == <<checked, aifv, pkg, run>>

vars == <<now, inputs, out_exists, container, last_build, edits, report, vresult, earlier, fsvars, unitvars>>

\* bounds of the model
MaxClock == 2
MaxEdits == 2
MaxCalls == 3

Asset(present, ext, data) == [present |-> present, ext |-> ext, data |-> data]

Inputs(exists, ext, data, mtime, second, title, creator_name, creator_contact, mode, declaration, primary_tool) ==
    [exists |-> exists, ext |-> ext, data |-> data, mtime |-> mtime, second |-> second,
     title |-> title, creator_name |-> creator_name, creator_contact |-> creator_contact,
     mode |-> mode, declaration |-> declaration, primary_tool |-> primary_tool]

\* the 3-byte media stub, a second asset (cover or thumbnail), and the bytes a tamperer writes
STUB == Raw(<<1, 2, 3>>)
SECOND == Raw(<<9>>)
TAMPERED == Raw(<<0>>)

SecondAssets == {Asset(FALSE, <<>>, SECOND), Asset(TRUE, Dot.jpg, SECOND),
                 Asset(TRUE, Dot.png, SECOND)}

\* declared fields <<title, contact, mode, declaration>>: all well-formed, each one
\* malformed alone, and all malformed together
DeclaredFields ==
    {<<Sample.title_test, Sample.contact_email, MODE_HUMAN_DIRECTED, Sample.declaration_given>>,
     <<Sample.title_blank, Sample.contact_email, MODE_HUMAN_DIRECTED, Sample.declaration_given>>,
     <<Sample.title_test, Sample.contact_not_email, MODE_HUMAN_DIRECTED, Sample.declaration_given>>,
     <<Sample.title_test, Sample.contact_email, Sample.mode_other, Sample.declaration_given>>,
     <<Sample.title_test, Sample.contact_email, MODE_HUMAN_DIRECTED, <<>>>>,
     <<Sample.title_blank, Sample.contact_not_email, Sample.mode_other, <<>>>>}

\* every asset type and optional second asset with every choice of declared fields
WideInputs ==
    {Inputs(TRUE, ext, STUB, 0, second, f[1], Sample.creator_a, f[2], f[3], f[4], Sample.tool_name) :
        ext \in {Dot.wav, Dot.mp4, Dot.png}, second \in SecondAssets, f \in DeclaredFields}

\* well-formed declared fields only: the containers that are then tampered with
GoodInputs ==
    {inp \in WideInputs :
        /\ inp.title = Sample.title_test /\ inp.creator_contact = Sample.contact_email
        /\ inp.mode = MODE_HUMAN_DIRECTED /\ inp.declaration = Sample.declaration_given
        /\ inp.second.ext # Dot.png}

\* no call has been examined
UnitInit == checked = <<>> /\ aifv = <<>> /\ pkg = <<>> /\ run = <<>>

NoBuild == [ep |-> "none", ok |-> FALSE, error |-> "", zip |-> <<>>]

InitWith(S) ==
    /\ now = 1
    /\ inputs \in S
    /\ out_exists = FALSE
    /\ container = <<>>
    /\ last_build = NoBuild
    /\ edits = {}
    /\ report = NoReport
    /\ vresult = NoVerify
    /\ earlier = <<>>
    /\ dirs = {}
    /\ files = <<>>
    /\ staged = <<>>
    /\ calls = <<>>
    /\ faults = 0
    /\ UnitInit

Init == InitWith(GoodInputs)

\* a build call: on success the container at the output path is the one it wrote.
\* Builds are taken on an unchanged output path: a build over a changed container
\* replaces it just as it replaces an unchanged one.
Build(ep, r) ==
    /\ edits = {}
    /\ last_build' = [ep |-> ep, ok |-> r.ok, error |-> r.error, zip |-> r.zip]
    /\ IF r.ok
       THEN /\ out_exists' = TRUE
            /\ container' = r.zip
            /\ edits' = {}
            /\ report' = NoReport
            /\ vresult' = NoVerify
            /\ earlier' = <<>>
       ELSE UNCHANGED <<out_exists, container, edits, report, vresult, earlier>>
    /\ UNCHANGED <<now, inputs, fsvars, unitvars>>

BuildAifm == Build("build_aifm", build_aifm(inputs, now))
BuildAifv == Build("build_aifv", build_aifv(inputs, now))
BuildAifi == Build("build_aifi", build_aifi(inputs, now))
ConvertToAifm == Build("convert_to_aifm", convert_to_aifm(inputs, now))

\* time passes between two calls
Tick ==
    /\ now < MaxClock
    /\ now' = now + 1
    /\ UNCHANGED <<inputs, out_exists, container, last_build, edits, report, vresult, earlier, fsvars, unitvars>>

\* zipfile.ZipFile(package_path, mode): what is at the path once it is opened
ZipFile(z, mode) == IF mode = "w" THEN <<>> ELSE z

validate_open_mode_w == "w"

\* the mode validate_aifx_package opens the package with
validate_open_mode == "r"

Validate ==
    /\ report = NoReport
    /\ container' = (IF out_exists THEN ZipFile(container, validate_open_mode) ELSE container)
    /\ report' = validate_aifx_package(out_exists, container')
    /\ UNCHANGED <<now, inputs, out_exists, last_build, edits, vresult, earlier, fsvars, unitvars>>

\* one more validate call on the same path, the earlier reports kept for comparison
ValidateAgain ==
    /\ report # NoReport
    /\ Len(earlier) + 1 < MaxCalls
    /\ earlier' = Append(earlier, report)
    /\ container' = (IF out_exists THEN ZipFile(container, validate_open_mode) ELSE container)
    /\ report' = validate_aifx_package(out_exists, container')
    /\ UNCHANGED <<now, inputs, out_exists, last_build, edits, vresult, fsvars, unitvars>>

Verify ==
    /\ vresult = NoVerify
    /\ vresult' = verify(out_exists, container)
    /\ UNCHANGED <<now, inputs, out_exists, container, last_build, edits, report, earlier, fsvars, unitvars>>

NextBuild ==
    \/ BuildAifm
    \/ BuildAifv
    \/ BuildAifi
    \/ ConvertToAifm
    \/ Tick
    \/ Validate
    \/ Verify

\* builds from every input combination, at different times, each followed by verification
BuildSpec == InitWith(WideInputs) /\ [][NextBuild]_vars

(***************************************************************************)
(* Changes made to a container after it was built, by whoever holds the    *)
(* file: validate_aifx_package and verify take any file at package_path.   *)
(***************************************************************************)
ManifestOf(z) == JsonLoads(zread(z, MANIFEST_JSON))

HasManifest(z) == InZip(z, MANIFEST_JSON) /\ IsJson(zread(z, MANIFEST_JSON))

PayloadNames(z) == Range(namelist(z)) \ {MANIFEST_JSON}

ReplaceData(z, name, data) ==
    [i \in DOMAIN z |-> IF z[i].name = name THEN [z[i] EXCEPT !.data = data] ELSE z[i]]

RECURSIVE HasPath(_, _)
HasPath(doc, path) ==
    IF path = <<>> THEN TRUE
    ELSE IF IsDict(doc) /\ HasKey(doc, path[1])
         THEN HasPath(Get(doc, path[1]), Tail(path))
         ELSE FALSE

RECURSIVE GetPath(_, _)
GetPath(doc, path) == IF path = <<>> THEN doc ELSE GetPath(Get(doc, path[1]), Tail(path))

RECURSIVE SetPath(_, _, _)
SetPath(doc, path, value) ==
    IF Len(path) = 1 THEN Put(doc, path[1], value)
    ELSE Put(doc, path[1], SetPath(Get(doc, path[1]), Tail(path), value))

\* one change: its kind and the entry name or manifest field path it touches
Edit(kind, path) == [kind |-> kind, path |-> path]

\* a change is made to the container the last build call wrote, at most MaxEdits of
\* them, each kind of change to one place once; the results of earlier calls no longer
\* describe the container
Changed(z, e) ==
    /\ last_build.ok
    /\ Cardinality(edits) < MaxEdits
    /\ e \notin edits
    /\ out_exists
    /\ container' = z
    /\ edits' = edits \cup {e}
    /\ report' = NoReport
    /\ vresult' = NoVerify
    /\ earlier' = <<>>
    /\ UNCHANGED <<now, inputs, out_exists, last_build, fsvars, unitvars>>

\* the bytes of one asset entry are overwritten
TamperPayload ==
    \E name \in PayloadNames(container) :
        /\ zread(container, name) # TAMPERED
        /\ Changed(ReplaceData(container, name, TAMPERED), Edit("payload", <<name>>))

\* one entry is deleted from the container
RemoveEntry ==
    \E name \in Range(namelist(container)) :
        Changed(SelectSeq(container, LAMBDA e : e.name # name), Edit("remove", <<name>>))

\* entries an archive tool can add: unsafe names, a symbolic link, an unlisted file
AddedEntries ==
    {Entry(Sample.name_traversal, TAMPERED, fixed_dt, Shl16(RegularFileMode)),
     Entry(Sample.name_absolute, TAMPERED, fixed_dt, Shl16(RegularFileMode)),
     Entry(Sample.name_link, TAMPERED, fixed_dt, Shl16(S_IFLNK + 511)),
     Entry(Sample.name_extra, TAMPERED, fixed_dt, Shl16(RegularFileMode))}

AddEntry ==
    \E e \in AddedEntries :
        /\ ~InZip(container, e.name)
        /\ Changed(Append(container, e), Edit("add", <<e.name>>))

\* the values a manifest field can be changed to, per field path
FieldEdits(z) ==
    {<<<<Key.work, Key.title>>, EmptyStr>>,
     <<<<Key.creator, Key.contact>>, Str(Sample.contact_not_email)>>,
     <<<<Key.mode>>, Str(Sample.mode_other)>>,
     <<<<Key.ai_generated>>, False>>,
     <<<<Key.declaration>>, EmptyStr>>,
     <<<<Key.integrity>>, None>>,
     <<<<Key.integrity, Key.algorithm>>, Str(Sample.algo_md5)>>,
     <<<<Key.integrity, Key.manifest_hash_mode>>, Str(Sample.hash_mode_raw)>>,
     <<<<Key.integrity, Key.hashed_files, MANIFEST_JSON, Key.sha256>>, Sha256(TAMPERED)>>,
     <<<<Key.integrity, Key.hashed_files, MANIFEST_JSON, Key.bytes>>, Num(0)>>}
    \cup {<<<<Key.integrity, Key.hashed_files, name, Key.sha256>>, Sha256(TAMPERED)>> :
            name \in PayloadNames(z)}

\* the value of one manifest field is changed; no hash is recomputed
TamperManifest ==
    /\ HasManifest(container)
    /\ \E fe \in FieldEdits(container) :
          LET data == zread(container, MANIFEST_JSON)
              doc == JsonLoads(data)
          IN  /\ HasPath(doc, fe[1])
              /\ GetPath(doc, fe[1]) # fe[2]
              /\ Changed(ReplaceData(container, MANIFEST_JSON,
                                     <<"json", data[2], SetPath(doc, fe[1], fe[2])>>),
                         Edit("field", fe[1]))

\* manifest.json is overwritten with bytes that are not JSON
CorruptManifest ==
    /\ HasManifest(container)
    /\ Changed(ReplaceData(container, MANIFEST_JSON, TAMPERED), Edit("corrupt", <<MANIFEST_JSON>>))

Next ==
    \/ BuildAifm
    \/ BuildAifv
    \/ BuildAifi
    \/ ConvertToAifm
    \/ TamperPayload
    \/ RemoveEntry
    \/ AddEntry
    \/ TamperManifest
    \/ CorruptManifest
    \/ Validate

\* containers built from well-formed inputs, then changed and verified
Spec == Init /\ [][Next]_vars

RepeatNext ==
    \/ Next
    \/ ValidateAgain

\* containers built, changed and then validated several times in a row
RepeatSpec == Init /\ [][RepeatNext]_vars

(***************************************************************************)
(* Containers as verify_aifm.verify reads them: the manifest digest made   *)
(* with verify_aifm's own canonical form, and byte lengths declared.       *)
(***************************************************************************)
HashedRecordPath(name) == <<Key.integrity, Key.hashed_files, name>>

\* the byte lengths a writer can declare for data: the true one and two others
DeclaredLengths(data) == {0, ByteLen(data), ByteLen(data) + 1}

\* the manifest.json record is rewritten with the digest of canonical_manifest_bytes
\* and a declared byte length
SealManifest ==
    /\ HasManifest(container)
    /\ LET data == zread(container, MANIFEST_JSON)
           doc == JsonLoads(data)
       IN  /\ HasPath(doc, <<Key.integrity, Key.hashed_files>>)
           /\ IsDict(GetPath(doc, <<Key.integrity, Key.hashed_files>>))
           /\ \E n \in DeclaredLengths(data) :
                 Changed(ReplaceData(container, MANIFEST_JSON,
                             <<"json", data[2],
                               SetPath(doc, HashedRecordPath(MANIFEST_JSON),
                                   Obj(<< <<Key.sha256, Sha256(canonical_manifest_bytes(doc))>>,
                                          <<Key.bytes, Num(n)>> >>))>>),
                         Edit("seal", <<MANIFEST_JSON>>))

\* the byte length declared for one asset entry is rewritten, its digest kept
DeclareBytes ==
    /\ HasManifest(container)
    /\ \E name \in PayloadNames(container) :
          LET data == zread(container, MANIFEST_JSON)
              doc == JsonLoads(data)
          IN  /\ HasPath(doc, HashedRecordPath(name))
              /\ IsDict(GetPath(doc, HashedRecordPath(name)))
              /\ \E n \in DeclaredLengths(zread(container, name)) :
                    /\ Get(GetPath(doc, HashedRecordPath(name)), Key.bytes) # Num(n)
                    /\ Changed(ReplaceData(container, MANIFEST_JSON,
                                   <<"json", data[2],
                                     SetPath(doc, HashedRecordPath(name) \o <<Key.bytes>>, Num(n))>>),
                               Edit("bytes", <<name>>))

VerifyNext ==
    \/ BuildAifm
    \/ ConvertToAifm
    \/ SealManifest
    \/ DeclareBytes
    \/ TamperPayload
    \/ Verify

\* audio containers whose records are rewritten and then checked by verify
VerifySpec == Init /\ [][VerifyNext]_vars

(***************************************************************************)
(* core/validation/aifv_validator.py: the path and symlink tests of        *)
(* validate_aifv.  validate_aifx_package does not call them.               *)
(***************************************************************************)

\* name.replace("\\", "/")
ReplaceBackslash(name) == [i \in DOMAIN name |-> IF name[i] = "\\" THEN "/" ELSE name[i]]

\* "/".join(comps)
RECURSIVE JoinSlash(_)
JoinSlash(comps) ==
    IF comps = <<>> THEN <<>>
    ELSE IF Len(comps) = 1 THEN comps[1]
    ELSE comps[1] \o <<"/">> \o JoinSlash(Tail(comps))

\* the loop of posixpath.normpath over the components of the path
RECURSIVE NormComps(_, _, _)
NormComps(comps, new_comps, initial_slashes) ==
    IF comps = <<>> THEN new_comps
    ELSE LET comp == Head(comps)
             last == IF new_comps = <<>> THEN <<>> ELSE new_comps[Len(new_comps)]
         IN  IF comp \in {<<>>, <<".">>} THEN NormComps(Tail(comps), new_comps, initial_slashes)
             ELSE IF comp # <<".", ".">>
                     \/ (initial_slashes = 0 /\ new_comps = <<>>)
                     \/ (new_comps # <<>> /\ last = <<".", ".">>)
             THEN NormComps(Tail(comps), Append(new_comps, comp), initial_slashes)
             ELSE IF new_comps # <<>>
             THEN NormComps(Tail(comps), SubSeq(new_comps, 1, Len(new_comps) - 1), initial_slashes)
             ELSE NormComps(Tail(comps), new_comps, initial_slashes)

\* posixpath.normpath(path)
normpath(path) ==
    LET initial_slashes ==
            IF ~StartsWith(path, <<"/">>) THEN 0
            ELSE IF StartsWith(path, <<"/", "/">>) /\ ~StartsWith(path, <<"/", "/", "/">>) THEN 2
            ELSE 1
        joined == JoinSlash(NormComps(Split(path), <<>>, initial_slashes))
        result == [i \in 1..initial_slashes |-> "/"] \o joined
    IN  IF path = <<>> \/ result = <<>> THEN <<".">> ELSE result

\* re.match(r"^[A-Za-z]:/", name_norm)
HasDrivePrefix(name_norm) ==
    IF Len(name_norm) < 3 THEN FALSE
    ELSE /\ name_norm[1] \in (Range(UpperCase) \cup Range(LowerCase))
         /\ name_norm[2] = ":" /\ name_norm[3] = "/"

\* the components of the path that are not empty
NonEmptyParts(name_norm) == SelectSeq(Split(name_norm), LAMBDA p : p # <<>>)

\* a name is refused only if it leaves the root once normalized
is_unsafe_path_after_normpath(name) ==
    LET name_norm == ReplaceBackslash(name)
        norm == normpath(name_norm)
    IN  IF StartsWith(name, <<"/">>) \/ StartsWith(name, <<"\\">>) THEN TRUE
        ELSE IF HasDrivePrefix(name_norm) THEN TRUE
        ELSE StartsWith(norm, <<".", ".", "/">>) \/ norm = <<".", ".">>

\* _is_unsafe_path
is_unsafe_path(name) ==
    LET name_norm == ReplaceBackslash(name)
        norm == normpath(name_norm)
        parts == NonEmptyParts(name_norm)
    IN  IF StartsWith(name, <<"/">>) \/ StartsWith(name, <<"\\">>) THEN TRUE
        ELSE IF HasDrivePrefix(name_norm) THEN TRUE
        ELSE IF StartsWith(norm, <<".", ".", "/">>) \/ norm = <<".", ".">> THEN TRUE
        ELSE IF \E i \in DOMAIN parts : parts[i] = <<".", ".">> THEN TRUE
        ELSE FALSE

\* the mode bits are looked for in the low half of external_attr
zipinfo_is_symlink_unshifted(zinfo) ==
    (zinfo.external_attr.lo \div 4096) * 4096 = S_IFLNK

\* _zipinfo_is_symlink: (external_attr >> 16) & 0o170000 == 0o120000
zipinfo_is_symlink(zinfo) ==
    (Shr16(zinfo.external_attr) \div 4096) * 4096 = S_IFLNK

\* THUMB_PATH = "assets/thumb.jpg"
THUMB_PATH == RelPath.assets_thumb_dot \o Ext.jpg

\* PRIMARY_VIDEO_RE = ^assets/video\.[^/]+$
PRIMARY_VIDEO_RE_match(name) ==
    /\ StartsWith(name, RelPath.assets_video_dot)
    /\ Len(name) > Len(RelPath.assets_video_dot)
    /\ \A i \in (Len(RelPath.assets_video_dot) + 1)..Len(name) : name[i] # "/"

\* _nonempty_str
nonempty_str(v) == IF v[1] = "s" THEN Strip(v[2]) # <<>> ELSE v[1] = "h"

\* the error or warning a failed check appends
Unless(ok, message) == IF ok THEN <<>> ELSE <<message>>

\* validate_aifv(z, manifest): its checks, errors and warnings
validate_aifv(z, manifest) ==
    LET infos == z
        names == Range(namelist(z))
        safe_paths_ok == \A i \in DOMAIN infos : ~is_unsafe_path(infos[i].name)
        no_symlinks_ok == \A i \in DOMAIN infos : ~zipinfo_is_symlink(infos[i])
        thumb_present == THUMB_PATH \in names
        primary_videos == {n \in names : PRIMARY_VIDEO_RE_match(n)}
        primary_ok == Cardinality(primary_videos) = 1
        work == IF IsDict(Get(manifest, Key.work)) THEN Get(manifest, Key.work) ELSE EmptyObj
        creator == IF IsDict(Get(manifest, Key.creator)) THEN Get(manifest, Key.creator) ELSE EmptyObj
        title_ok == nonempty_str(Get(work, Key.title))
        cname_ok == nonempty_str(Get(creator, Key.name))
        ccontact_ok == nonempty_str(Get(creator, Key.contact))
        mode_ok == nonempty_str(Get(manifest, Key.mode))
        ai_ok == Get(manifest, Key.ai_generated) = True
        tier_ok == Get(manifest, Key.verification_tier) = Str(Value.sda)
        decl_ok == nonempty_str(Get(manifest, Key.declaration))
        video_obj == Get(manifest, Key.video)
        facts_ok == IF IsDict(video_obj)
                    THEN \E k \in {Key.duration, Key.width, Key.height, Key.fps, Key.codec,
                                   Key.container} : HasKey(video_obj, k)
                    ELSE FALSE
    IN  [checks |->
            ("security.safe_paths" :> safe_paths_ok) @@ ("security.no_symlinks" :> no_symlinks_ok)
            @@ ("files.thumbnail_present" :> thumb_present)
            @@ ("files.primary_video_single" :> primary_ok)
            @@ ("manifest.work.title" :> title_ok) @@ ("manifest.creator.name" :> cname_ok)
            @@ ("manifest.creator.contact" :> ccontact_ok) @@ ("manifest.mode" :> mode_ok)
            @@ ("manifest.ai_generated" :> ai_ok) @@ ("manifest.verification_tier" :> tier_ok)
            @@ ("manifest.declaration" :> decl_ok) @@ ("info.video_facts_present" :> facts_ok),
         errors |->
            Unless(safe_paths_ok, "security: unsafe path detected (possible zip-slip)")
            \o Unless(no_symlinks_ok, "security: symlinks are not allowed")
            \o Unless(thumb_present, "assets/thumb.jpg missing (required)")
            \o Unless(primary_ok,
                      IF primary_videos = {}
                      THEN "primary video missing (expected exactly one file matching assets/video.*)"
                      ELSE "multiple primary videos found (expected exactly one file matching assets/video.*)")
            \o Unless(title_ok, "work.title missing (required)")
            \o Unless(cname_ok, "creator.name missing (required)")
            \o Unless(ccontact_ok, "creator.contact missing (email required)")
            \o Unless(mode_ok, "mode missing (required)")
            \o Unless(ai_ok, "ai_generated must be true (required)")
            \o Unless(tier_ok, "verification_tier must be 'SDA' (required)")
            \o Unless(decl_ok, "declaration missing (required)"),
         warnings |->
            Unless(facts_ok, "info: video facts missing (duration/resolution/fps/codecs) - not required in v0")]

(***************************************************************************)
(* The build entrypoints step by step on the file system: the output       *)
(* parent directory, the staging directory, the temporary archive and the  *)
(* destination file, with I/O operations that can fail.                    *)
(***************************************************************************)
MaxFaults == 1

Entrypoints == {"convert_to_aifm", "build_aifm", "build_aifv", "build_aifi"}

\* the entrypoints that assemble the container in a staging directory
Staged == {"convert_to_aifm", "build_aifi"}

\* good inputs and the input errors: a missing source asset, a disallowed extension,
\* an empty title, creator name or creator contact, a contact that is no email address
Profiles == {"good", "missing", "bad_ext", "no_title", "no_name", "no_contact", "bad_contact"}

GoodInputsOf(ep) ==
    Inputs(TRUE,
           IF ep = "build_aifv" THEN Dot.mp4 ELSE IF ep = "build_aifi" THEN Dot.png ELSE Dot.wav,
           STUB, 0,
           IF ep = "build_aifv" THEN Asset(TRUE, Dot.jpg, SECOND) ELSE Asset(FALSE, <<>>, SECOND),
           Sample.title_test, Sample.creator_a, Sample.contact_email, MODE_HUMAN_DIRECTED,
           Sample.declaration_given, Sample.tool_name)

InputsOf(ep, profile) ==
    LET good == GoodInputsOf(ep)
    IN  CASE profile = "good" -> good
          [] profile = "missing" -> [good EXCEPT !.exists = FALSE]
          [] profile = "bad_ext" -> [good EXCEPT !.ext = Dot.txt]
          [] profile = "no_title" -> [good EXCEPT !.title = <<>>]
          [] profile = "no_name" -> [good EXCEPT !.creator_name = <<>>]
          [] profile = "no_contact" -> [good EXCEPT !.creator_contact = <<>>]
          [] profile = "bad_contact" -> [good EXCEPT !.creator_contact = Sample.contact_not_email]

\* the directory of the output paths, and the output paths themselves
OutDir == "out"
OutSuffix(ep, upper) ==
    IF ep = "build_aifv" THEN (IF upper THEN Dot.AIFV ELSE Dot.aifv)
    ELSE IF ep = "build_aifi" THEN (IF upper THEN Dot.AIFI ELSE Dot.aifi)
    ELSE (IF upper THEN Dot.AIFM ELSE Dot.aifm)
OutPath(stem, suffix) == [stem |-> stem, suffix |-> suffix]

\* a variant that hands the destination itself to the archive writer
tmp_path_is_out(out_path) == out_path

\* out_path.with_suffix(out_path.suffix + ".tmp")
tmp_path(out_path) == OutPath(out_path.stem, out_path.suffix \o Dot.tmp)

\* an archive file: who wrote it (0: it was there before), the entries written so far,
\* and whether it is being written, was closed part-way, or was closed with all entries;
\* origin[i] is the call whose source bytes entry i holds, and digests maps each name in
\* the stored manifest's hashed_files to the call whose source bytes were hashed for it
Archive(by, names, state) ==
    [by |-> by, names |-> names, state |-> state, origin |-> [i \in DOMAIN names |-> by],
     digests |-> <<>>]
Previous == Archive(0, <<MANIFEST_JSON>>, "complete")

\* staging directory names
StagingDir(prefix, ts, pid, stem) == [prefix |-> prefix, ts |-> ts, pid |-> pid, stem |-> stem]
NoStaging == StagingDir("", 0, 0, "")

\* ~/.aifx_staging/aifm_{UTC timestamp to the second}_{os.getpid()}
aifm_staging(clock, pid) == StagingDir("aifm_", clock, pid, "")

\* out_path.parent / f".aifi_build_{out_path.stem}"
aifi_tmp_dir(out_path) == StagingDir(".aifi_build_", 0, 0, out_path.stem)

StagedFile(by, link) == [by |-> by, link |-> link]

\* a staged manifest.json: hashed maps each name in its hashed_files to the call whose
\* source bytes were hashed for it
StagedManifest(by, hashed) == [by |-> by, link |-> FALSE, hashed |-> hashed]

\* the steps of each entrypoint, in program order
Steps(ep) ==
    CASE ep = "convert_to_aifm" ->
            <<"check", "stage", "copy", "parent", "bp_check", "bp_manifest", "open", "write",
              "unlink", "rename", "cleanup">>
      [] ep = "build_aifm" -> <<"check", "parent", "open", "write">>
      [] ep = "build_aifv" -> <<"check", "parent", "check_ext", "open", "write">>
      [] ep = "build_aifi" ->
            <<"check", "stage", "copy", "parent", "unlink", "open", "write", "cleanup">>

\* the steps of build_aifi inside its try block, whose failures run the finally block
TryBlock == {"copy", "parent", "unlink", "open", "write"}

\* the steps whose I/O can fail: copying and hashing, writing an entry, renaming
FaultPoints(ep) ==
    CASE ep = "convert_to_aifm" -> {"copy", "bp_manifest", "write", "rename"}
      [] ep = "build_aifm" -> {"write"}
      [] ep = "build_aifv" -> {"write"}
      [] ep = "build_aifi" -> {"copy", "write"}

Without(f, k) == [x \in DOMAIN f \ {k} |-> f[x]]

Advance(call) ==
    LET s == Steps(call.ep)
        i == CHOOSE j \in DOMAIN s : s[j] = call.pc
    IN  IF i = Len(s) THEN [call EXCEPT !.pc = "done", !.outcome = "returned"]
        ELSE [call EXCEPT !.pc = s[i + 1]]

Raise(call, e) == [call EXCEPT !.pc = "done", !.outcome = "raised", !.error = e, !.at = call.pc]

\* an exception at the current step: build_aifi's finally block runs first
Abort(call, e) ==
    IF call.ep = "build_aifi" /\ call.pc \in TryBlock
    THEN [call EXCEPT !.pc = "cleanup", !.error = e, !.at = call.pc]
    ELSE Raise(call, e)

\* what the entrypoint computes from its inputs
Result(ep, inp, clock) ==
    CASE ep = "convert_to_aifm" -> convert_to_aifm(inp, clock)
      [] ep = "build_aifm" -> build_aifm(inp, clock)
      [] ep = "build_aifv" -> build_aifv(inp, clock)
      [] ep = "build_aifi" -> build_aifi(inp, clock)

\* a call about to start.  Whether the inputs pass the checks (ok, error) and the names
\* of the entries to package (plan) do not depend on the time of the call.
NewCall(ep, profile, out_path, pid) ==
    LET inp == InputsOf(ep, profile)
        r == Result(ep, inp, 1)
    IN  [ep |-> ep, profile |-> profile, inp |-> inp, ok |-> r.ok, raises |-> r.error,
         plan |-> namelist(r.zip), out |-> out_path, pid |-> pid, pc |-> "check",
         staging |-> NoStaging, todo |-> <<>>, error |-> "", at |-> "",
         outcome |-> "running", made |-> {}]

\* build_aifv's checks that precede out_path.parent.mkdir
aifv_checks_before_mkdir(inp) ==
    /\ inp.exists /\ inp.second.present
    /\ Strip(inp.title) # <<>> /\ Strip(inp.creator_name) # <<>>
    /\ Strip(inp.creator_contact) # <<>> /\ Strip(inp.mode) # <<>>
    /\ Strip(inp.primary_tool) # <<>>

\* the file the archive entries are written to
Target(call) == IF call.ep = "convert_to_aifm" THEN tmp_path(call.out) ELSE call.out

\* the files the call puts into its staging directory before the manifest is written
StagedRels(call) ==
    Range(call.plan) \ (IF call.ep = "convert_to_aifm" THEN {MANIFEST_JSON} ELSE {})

ensure_no_symlinks_off(dir) == TRUE

\* ensure_no_symlinks: TRUE when no path below the staging root is a symbolic link
ensure_no_symlinks(dir) == \A rel \in DOMAIN dir : ~dir[rel].link

Running(c) == c \in DOMAIN calls /\ calls[c].outcome = "running"

Idle == UNCHANGED <<inputs, out_exists, container, last_build, edits, report, vresult, earlier, unitvars>>

\* the input checks at the head of the entrypoint
Check(c) ==
    /\ Running(c) /\ calls[c].pc = "check"
    /\ LET call == calls[c]
           passes == IF call.ep = "build_aifv" THEN aifv_checks_before_mkdir(call.inp)
                     ELSE call.ok
       IN  calls' = [calls EXCEPT ![c] =
                        IF passes THEN Advance(call) ELSE Raise(call, call.raises)]
    /\ UNCHANGED <<now, dirs, files, staged, faults>>
    /\ Idle

\* the staging directory is named, removed if it exists, and created
Stage(c) ==
    /\ Running(c) /\ calls[c].pc = "stage"
    /\ LET call == calls[c]
           name == IF call.ep = "build_aifi" THEN aifi_tmp_dir(call.out)
                   ELSE aifm_staging(now, call.pid)
           parent_made == IF call.ep = "build_aifi" /\ OutDir \notin dirs THEN {"parent"} ELSE {}
       IN  /\ staged' = (name :> <<>>) @@ staged
           /\ dirs' = IF call.ep = "build_aifi" THEN dirs \cup {OutDir} ELSE dirs
           /\ calls' = [calls EXCEPT ![c] =
                           [Advance(call) EXCEPT !.staging = name,
                                                 !.made = @ \cup {"staging"} \cup parent_made]]
    /\ UNCHANGED <<now, files, faults>>
    /\ Idle

\* the source assets (and build_aifi's manifest) are written below the staging root
Copy(c) ==
    /\ Running(c) /\ calls[c].pc = "copy"
    /\ LET call == calls[c]
           new == [rel \in StagedRels(call) |->
                      IF rel = MANIFEST_JSON
                      THEN StagedManifest(c, [r \in StagedRels(call) \ {MANIFEST_JSON} |-> c])
                      ELSE StagedFile(c, FALSE)]
       IN  IF call.staging \in DOMAIN staged
           THEN /\ staged' = [staged EXCEPT ![call.staging] = new @@ @]
                /\ calls' = [calls EXCEPT ![c] = Advance(call)]
           ELSE /\ staged' = staged
                /\ calls' = [calls EXCEPT ![c] = Abort(call, "OSError")]
    /\ UNCHANGED <<now, dirs, files, faults>>
    /\ Idle

\* out_path.parent.mkdir(parents=True, exist_ok=True)
MkParent(c) ==
    /\ Running(c) /\ calls[c].pc = "parent"
    /\ dirs' = dirs \cup {OutDir}
    /\ calls' = [calls EXCEPT ![c] =
                    [Advance(calls[c]) EXCEPT !.made = @ \cup (IF OutDir \in dirs THEN {} ELSE {"parent"})]]
    /\ UNCHANGED <<now, files, staged, faults>>
    /\ Idle

\* build_aifv's extension checks, after the parent directory was made
CheckExt(c) ==
    /\ Running(c) /\ calls[c].pc = "check_ext"
    /\ calls' = [calls EXCEPT ![c] =
                    IF calls[c].ok THEN Advance(calls[c]) ELSE Raise(calls[c], calls[c].raises)]
    /\ UNCHANGED <<now, dirs, files, staged, faults>>
    /\ Idle

\* build_package: the staging root must exist and hold no symbolic link
BpCheck(c) ==
    /\ Running(c) /\ calls[c].pc = "bp_check"
    /\ LET call == calls[c]
       IN  calls' = [calls EXCEPT ![c] =
                        IF call.staging \notin DOMAIN staged THEN Raise(call, "FileNotFoundError")
                        ELSE IF ~ensure_no_symlinks(staged[call.staging])
                        THEN Raise(call, "SymlinkNotAllowedError")
                        ELSE Advance(call)]
    /\ UNCHANGED <<now, dirs, files, staged, faults>>
    /\ Idle

\* build_package: manifest.json is written, the staged files are hashed, and the final
\* manifest.json is written
BpManifest(c) ==
    /\ Running(c) /\ calls[c].pc = "bp_manifest"
    /\ LET call == calls[c]
       IN  IF call.staging \in DOMAIN staged
           THEN /\ staged' = [staged EXCEPT ![call.staging] =
                                 (MANIFEST_JSON :>
                                    StagedManifest(c, [r \in DOMAIN @ \ {MANIFEST_JSON} |-> @[r].by]))
                                 @@ @]
                /\ calls' = [calls EXCEPT ![c] = Advance(call)]
           ELSE /\ staged' = staged
                /\ calls' = [calls EXCEPT ![c] = Raise(call, "OSError")]
    /\ UNCHANGED <<now, dirs, files, faults>>
    /\ Idle

\* zipfile.ZipFile(target, "w"): the target is created empty, or truncated
Open(c) ==
    /\ Running(c) /\ calls[c].pc = "open"
    /\ LET call == calls[c]
           listed == IF call.staging \in DOMAIN staged
                     THEN SortedPaths(DOMAIN staged[call.staging]) ELSE <<>>
           todo == IF call.ep \in Staged THEN listed ELSE call.plan
       IN  /\ files' = (Target(call) :> Archive(c, <<>>, "writing")) @@ files
           /\ calls' = [calls EXCEPT ![c] =
                           [Advance(call) EXCEPT !.todo = todo,
                               !.made = @ \cup {IF Target(call) = call.out THEN "dest" ELSE "tmp"}]]
    /\ dirs' = dirs \cup {OutDir}
    /\ UNCHANGED <<now, staged, faults>>
    /\ Idle

\* one entry is written to the archive; after the last one the archive is closed
Write(c) ==
    /\ Running(c) /\ calls[c].pc = "write"
    /\ LET call == calls[c]
           target == Target(call)
           gone == /\ call.ep \in Staged
                   /\ \/ call.staging \notin DOMAIN staged
                      \/ Head(call.todo) \notin DOMAIN staged[call.staging]
       IN  IF call.todo = <<>>
           THEN /\ files' = [files EXCEPT ![target].state = "complete"]
                /\ calls' = [calls EXCEPT ![c] = Advance(call)]
           ELSE IF gone
           THEN /\ files' = [files EXCEPT ![target].state = "truncated"]
                /\ calls' = [calls EXCEPT ![c] = Abort(call, "OSError")]
           ELSE LET name == Head(call.todo)
                    origin == IF call.ep \in Staged THEN staged[call.staging][name].by ELSE c
                    digests == IF call.ep \in Staged THEN staged[call.staging][name].hashed
                               ELSE [r \in Range(call.plan) \ {MANIFEST_JSON} |-> c]
                IN  /\ files' = [files EXCEPT ![target].names = Append(@, name),
                                              ![target].origin = Append(@, origin),
                                              ![target].digests =
                                                  IF name = MANIFEST_JSON THEN digests ELSE @]
                    /\ calls' = [calls EXCEPT ![c] = [call EXCEPT !.todo = Tail(@)]]
    /\ UNCHANGED <<now, dirs, staged, faults>>
    /\ Idle

\* if out_path.exists(): out_path.unlink()
Unlink(c) ==
    /\ Running(c) /\ calls[c].pc = "unlink"
    /\ files' = Without(files, calls[c].out)
    /\ calls' = [calls EXCEPT ![c] = Advance(calls[c])]
    /\ UNCHANGED <<now, dirs, staged, faults>>
    /\ Idle

\* tmp.rename(out_path)
Rename(c) ==
    /\ Running(c) /\ calls[c].pc = "rename"
    /\ LET call == calls[c]
       IN  /\ files' = (call.out :> files[Target(call)]) @@ Without(files, Target(call))
           /\ calls' = [calls EXCEPT ![c] = [Advance(call) EXCEPT !.made = @ \cup {"dest"}]]
    /\ UNCHANGED <<now, dirs, staged, faults>>
    /\ Idle

\* shutil.rmtree(staging, ignore_errors=True): at the end of build_package, and in the
\* finally block of build_aifi
Cleanup(c) ==
    /\ Running(c) /\ calls[c].pc = "cleanup"
    /\ LET call == calls[c]
       IN  /\ staged' = Without(staged, call.staging)
           /\ calls' = [calls EXCEPT ![c] =
                           IF call.error = "" THEN Advance(call)
                           ELSE [call EXCEPT !.pc = "done", !.outcome = "raised"]]
    /\ UNCHANGED <<now, dirs, files, faults>>
    /\ Idle

\* an I/O operation of the current step fails; an archive being written is closed by
\* the with statement as far as it was written
Fail(c) ==
    /\ Running(c) /\ calls[c].pc \in FaultPoints(calls[c].ep)
    /\ faults < MaxFaults
    /\ faults' = faults + 1
    /\ LET call == calls[c]
       IN  /\ files' = IF call.pc = "write"
                       THEN [files EXCEPT ![Target(call)].state = "truncated"] ELSE files
           /\ calls' = [calls EXCEPT ![c] = Abort(call, "OSError")]
    /\ UNCHANGED <<now, dirs, staged>>
    /\ Idle

\* a symbolic link appears below the staging root before build_package is called
PlantSymlink(c) ==
    /\ Running(c) /\ calls[c].ep = "convert_to_aifm"
    /\ calls[c].pc \in {"copy", "parent", "bp_check"}
    /\ calls[c].staging \in DOMAIN staged
    /\ Sample.name_link \notin DOMAIN staged[calls[c].staging]
    /\ staged' = [staged EXCEPT ![calls[c].staging] = (Sample.name_link :> StagedFile(0, TRUE)) @@ @]
    /\ UNCHANGED <<now, dirs, files, calls, faults>>
    /\ Idle

FsNext ==
    \/ \E c \in DOMAIN calls : Check(c)
    \/ \E c \in DOMAIN calls : Stage(c)
    \/ \E c \in DOMAIN calls : Copy(c)
    \/ \E c \in DOMAIN calls : MkParent(c)
    \/ \E c \in DOMAIN calls : CheckExt(c)
    \/ \E c \in DOMAIN calls : BpCheck(c)
    \/ \E c \in DOMAIN calls : BpManifest(c)
    \/ \E c \in DOMAIN calls : Open(c)
    \/ \E c \in DOMAIN calls : Write(c)
    \/ \E c \in DOMAIN calls : Unlink(c)
    \/ \E c \in DOMAIN calls : Rename(c)
    \/ \E c \in DOMAIN calls : Cleanup(c)
    \/ \E c \in DOMAIN calls : Fail(c)
    \/ \E c \in DOMAIN calls : PlantSymlink(c)
    \/ Tick

\* the state before a build call: the output directory and a container at the output
\* path may exist or not
FsInitWith(C) ==
    /\ now = 1
    /\ inputs = GoodInputsOf("build_aifm")
    /\ out_exists = FALSE
    /\ container = <<>>
    /\ last_build = NoBuild
    /\ edits = {}
    /\ report = NoReport
    /\ vresult = NoVerify
    /\ earlier = <<>>
    /\ calls \in C
    /\ dirs \in {{}, {OutDir}}
    /\ files \in (IF OutDir \in dirs THEN {<<>>, (calls[1].out :> Previous)} ELSE {<<>>})
    /\ staged = <<>>
    /\ faults = 0
    /\ UnitInit

\* one call of any entrypoint with any of the inputs
OneCall ==
    {(1 :> NewCall(ep, profile, OutPath("a", OutSuffix(ep, FALSE)), 1)) :
        ep \in Entrypoints, profile \in Profiles}

FsSpec == FsInitWith(OneCall) /\ [][FsNext]_vars

\* two calls of one entrypoint with good inputs and distinct output paths, in one
\* process or in two
TwoCalls ==
    {(1 :> NewCall(ep, "good", OutPath("a", OutSuffix(ep, FALSE)), 1))
        @@ (2 :> NewCall(ep, "good", OutPath(o[1], OutSuffix(ep, o[2])), pid2)) :
        ep \in Entrypoints, o \in {<<"a", TRUE>>, <<"b", FALSE>>}, pid2 \in {1, 2}}

PairSpec == FsInitWith(TwoCalls) /\ [][FsNext]_vars

(***************************************************************************)
(* Archives in which one entry name occurs twice.  zipfile reads them:     *)
(* namelist() gives the name twice and read(name) the bytes of the last.   *)
(***************************************************************************)
\* an archive tool stores a second entry under a name the container already has, after
\* or before the first, with the same bytes or with other bytes
DuplicateEntry ==
    \E name \in Range(namelist(container)) :
      \E data \in {zread(container, name), TAMPERED}, last \in BOOLEAN :
        LET e == Entry(name, data, fixed_dt, Shl16(RegularFileMode))
        IN  Changed(IF last THEN Append(container, e) ELSE <<e>> \o container,
                    Edit("duplicate", <<name>>))

DuplicateNext ==
    \/ Next
    \/ DuplicateEntry

\* containers built from well-formed inputs, then changed, duplicated names included
DuplicateSpec == Init /\ [][DuplicateNext]_vars

(***************************************************************************)
(* Calls examined one at a time.  The variables of the build, validate and *)
(* file-system specifications stay at their initial values.                *)
(***************************************************************************)
QuietInit ==
    /\ now = 1
    /\ inputs = GoodInputsOf("build_aifm")
    /\ out_exists = FALSE
    /\ container = <<>>
    /\ last_build = NoBuild
    /\ edits = {}
    /\ report = NoReport
    /\ vresult = NoVerify
    /\ earlier = <<>>
    /\ dirs = {}
    /\ files = <<>>
    /\ staged = <<>>
    /\ calls = <<>>
    /\ faults = 0

Quiet == UNCHANGED <<now, inputs, out_exists, container, last_build, edits, report, vresult, earlier, fsvars>>

\* the longest entry name given to _is_unsafe_path
MaxNameLen == 6

\* the characters of the entry names: a letter, the dot, both separators, the colon
NameChars == {"a", ".", "/", "\\", ":"}

\* every entry name of at most MaxNameLen characters
EntryNames == UNION {[1..n -> NameChars] : n \in 0..MaxNameLen}

\* _is_unsafe_path is called with the name
CheckName ==
    /\ ~checked.called
    /\ checked' = [name |-> checked.name, called |-> TRUE, unsafe |-> is_unsafe_path(checked.name)]
    /\ UNCHANGED <<aifv, pkg, run>>
    /\ Quiet

PathInit ==
    /\ QuietInit
    /\ checked \in {[name |-> n, called |-> FALSE, unsafe |-> FALSE] : n \in EntryNames}
    /\ aifv = <<>> /\ pkg = <<>> /\ run = <<>>

PathNext == CheckName

\* _is_unsafe_path on every entry name
PathSpec == PathInit /\ [][PathNext]_vars

\* validate_aifv is called with the archive at the output path and its parsed manifest
ValidateAifv ==
    /\ out_exists /\ HasManifest(container) /\ IsDict(ManifestOf(container))
    /\ aifv' = [z |-> container] @@ validate_aifv(container, ManifestOf(container))
    /\ aifv' # aifv
    /\ UNCHANGED <<checked, pkg, run>>
    /\ Quiet

AifvNext ==
    \/ BuildAifm
    \/ BuildAifv
    \/ BuildAifi
    \/ ConvertToAifm
    \/ TamperPayload
    \/ RemoveEntry
    \/ AddEntry
    \/ ValidateAifv

\* well-formed declared fields, every extension of the first and of the second asset
AifvInputs ==
    {inp \in WideInputs :
        /\ inp.title = Sample.title_test /\ inp.creator_contact = Sample.contact_email
        /\ inp.mode = MODE_HUMAN_DIRECTED /\ inp.declaration = Sample.declaration_given}

\* containers built from these inputs, then entries added, removed or overwritten, and given to validate_aifv
AifvSpec == InitWith(AifvInputs) /\ [][AifvNext]_vars

(***************************************************************************)
(* converter_base.build_package called on one PackageBuild, more than      *)
(* once, with cleanup_staging off: the staging directory and the caller's  *)
(* manifest object live from one call to the next.                         *)
(***************************************************************************)
\* build_package, lines 149-151: final_manifest = dict(build.manifest) copies the top level
\* only, so an "integrity" member the caller supplied is one object in both documents and
\* the assignment of hashed_files reaches the caller's; setdefault adds a new member to the copy alone
final_manifest(manifest, hashed_files) ==
    LET shared == HasKey(manifest, Key.integrity)
        integrity == IF shared THEN Get(manifest, Key.integrity) ELSE EmptyObj
        final == Put(manifest, Key.integrity, Put(integrity, Key.hashed_files, hashed_files))
    IN  [final |-> final, caller |-> IF shared THEN final ELSE manifest]

\* the files that can be staged, each with bytes of its own
StagedNames ==
    {Sample.staged_a_txt, Sample.staged_a_b, Sample.staged_a_c_txt, Sample.staged_ab_c,
     Sample.staged_b}

StagedBytes(name) == Raw(<<Len(name), Ord[name[Len(name)]]>>)

\* the staging directories: every non-empty set of the files
Stagings == {[n \in S |-> StagedBytes(n)] : S \in (SUBSET StagedNames) \ {{}}}

\* the manifests a caller supplies: with the integrity block of convert_to_aifm, with an
\* integrity block that names the algorithm only, and without an integrity block
SuppliedManifests ==
    LET work == <<Key.work, Obj(<< <<Key.title, Str(Sample.title_test)>> >>)>>
    IN  {Obj(<<work,
               <<Key.integrity, Obj(<< <<Key.algorithm, Str(SHA256_NAME)>>,
                                       <<Key.hashed_files, EmptyObj>>,
                                       <<Key.manifest_hash_mode, Str(CANONICAL_EXCLUDES_SELF)>> >>)>> >>),
         Obj(<<work, <<Key.integrity, Obj(<< <<Key.algorithm, Str(SHA256_NAME)>> >>)>> >>),
         Obj(<<work>>)}

\* build_package(build) with build.cleanup_staging off
BuildPackage ==
    /\ Len(pkg.results) + 1 < MaxCalls
    /\ LET staging1 == write_manifest(pkg.staging, pkg.manifest)
           hashed_files == compute_integrity_canonical_excludes_self(staging1, pkg.manifest)
           fin == final_manifest(pkg.manifest, hashed_files)
           staging2 == write_manifest(staging1, fin.final)
       IN  pkg' = [pkg EXCEPT !.staging = staging2,
                              !.manifest = fin.caller,
                              !.results = Append(@, [hashed_files |-> hashed_files,
                                                     manifest_sha |-> Sha256(staging2[MANIFEST_JSON]),
                                                     zip |-> write_zip_deterministic(staging2)])]
    /\ UNCHANGED <<checked, aifv, run>>
    /\ Quiet

PackageInit ==
    /\ QuietInit
    /\ pkg \in {[staging |-> s, given |-> m, manifest |-> m, results |-> <<>>] :
                  s \in Stagings, m \in SuppliedManifests}
    /\ checked = <<>> /\ aifv = <<>> /\ run = <<>>

PackageNext == BuildPackage

\* build_package on every staging directory and manifest, called again on what it left
PackageSpec == PackageInit /\ [][PackageNext]_vars

(***************************************************************************)
(* One build call, asset by asset, while another process writes to the     *)
(* source file.  Each entrypoint takes the bytes of an asset once, into    *)
(* memory (read_bytes) or into its staging directory (shutil.copy2), then  *)
(* hashes them and then archives them.                                     *)
(***************************************************************************)
\* how often the other process writes to the source file
MaxWrites == 2

\* the assets each entrypoint reads from the caller's paths
AssetsOf(ep) ==
    CASE ep = "build_aifm" -> {"audio", "cover"}
      [] ep = "build_aifv" -> {"video", "thumb"}
      [] ep = "build_aifi" -> {"image"}
      [] ep = "convert_to_aifm" -> {"payload", "cover"}

\* where the entrypoint puts the bytes it takes from the source: build_aifm and build_aifv
\* read_bytes() into a variable, build_aifi and convert_to_aifm copy2 into staging
taken_into(ep) == IF ep \in {"build_aifm", "build_aifv"} THEN "memory" ELSE "staged"

\* where the digest recorded in hashed_files is computed from: _sha256_bytes(audio_bytes),
\* _sha256_file(image_dest), sha256_file(p) over the staging directory
hashed_from(ep) == taken_into(ep)

\* the archive is written from a second read of the source path
archived_from_source(ep) == "source"

\* where the entry bytes come from: z.writestr(rel, audio_bytes), z.write(p) and
\* write_zip_deterministic over the staging directory
archived_from(ep) == taken_into(ep)

\* the content the k-th write of the other process leaves in the source file
Written(k) == Raw(<<k>>)

NotTaken == <<>>

\* the asset bytes are read from the source path, into memory or into staging
TakeAsset ==
    /\ run.pc = "take"
    /\ run' = [run EXCEPT !.pc = "hash", !.at[taken_into(run.ep)] = run.at.source]
    /\ UNCHANGED <<checked, aifv, pkg>>
    /\ Quiet

\* the digest that goes into integrity.hashed_files is computed
HashAsset ==
    /\ run.pc = "hash"
    /\ run' = [run EXCEPT !.pc = "archive", !.digest = Sha256(run.at[hashed_from(run.ep)])]
    /\ UNCHANGED <<checked, aifv, pkg>>
    /\ Quiet

\* the entry is written to the container
ArchiveAsset ==
    /\ run.pc = "archive"
    /\ run' = [run EXCEPT !.pc = "done", !.archived = run.at[archived_from(run.ep)]]
    /\ UNCHANGED <<checked, aifv, pkg>>
    /\ Quiet

\* the other process overwrites the source file
ModifySource ==
    /\ run.writes < MaxWrites
    /\ run' = [run EXCEPT !.writes = @ + 1, !.at.source = Written(run.writes + 1),
                          !.written_at = Append(@, run.pc)]
    /\ UNCHANGED <<checked, aifv, pkg>>
    /\ Quiet

RaceInit ==
    /\ QuietInit
    /\ run \in {[ep |-> ep, asset |-> a, pc |-> "take", writes |-> 0, written_at |-> <<>>,
                 at |-> [source |-> Written(0), memory |-> NotTaken, staged |-> NotTaken],
                 digest |-> None, archived |-> NotTaken] :
                   ep \in Entrypoints, a \in {"audio", "cover", "video", "thumb", "image", "payload"}}
    /\ run.asset \in AssetsOf(run.ep)
    /\ checked = <<>> /\ aifv = <<>> /\ pkg = <<>>

RaceNext ==
    \/ TakeAsset
    \/ HashAsset
    \/ ArchiveAsset
    \/ ModifySource

\* every asset of every entrypoint, the source overwritten at any point of the build
RaceSpec == RaceInit /\ [][RaceNext]_vars

(***************************************************************************)
(* Properties.                                                             *)
(***************************************************************************)

\* validate_aifx_package returned a report on the container as it is now
Returned == report.outcome = "returned"

\* the container at the output path is exactly what a build call wrote
Untouched == out_exists /\ edits = {}

\* integrity.hashed_files of the stored manifest, as <<name, record>> members
HashedMembers(z) == Get(Get(ManifestOf(z), Key.integrity), Key.hashed_files)[2]

\* the digest the stored manifest declares for manifest.json
StoredManifestDigest(z) ==
    Get(Get(Get(Get(ManifestOf(z), Key.integrity), Key.hashed_files), MANIFEST_JSON), Key.sha256)

\* every declared digest is the digest of the entry it names, and the digest declared for
\* manifest.json is the digest of the stored manifest's self-excluding hash input
DigestsMatch(z) ==
    /\ \A i \in DOMAIN HashedMembers(z) :
          LET name == HashedMembers(z)[i][1]
              meta == HashedMembers(z)[i][2]
          IN  name # MANIFEST_JSON =>
                  InZip(z, name) /\ Get(meta, Key.sha256) = Sha256(zread(z, name))
    /\ StoredManifestDigest(z) = Sha256(validator_hash_input(ManifestOf(z)))

\* the messages of the errors the integrity pass can add to the report
IntegrityMessages ==
    {"integrity.hashed_files[] is not an object", "Missing sha256 for",
     "File not found in package:", "Hash mismatch for", "manifest.integrity missing",
     "Unsupported integrity.algorithm:", "integrity.hashed_files missing or empty",
     "integrity.hashed_files['manifest.json'] missing",
     "integrity.hashed_files['manifest.json'].sha256 missing"}

IntegrityErrors(r) == SelectSeq(r.errors, LAMBDA e : e.msg \in IntegrityMessages)

\* C1: Round-trip.  Whenever the container at the output path is the unmodified product
\* of a build entrypoint (build_aifm, build_aifv, build_aifi, convert_to_aifm), every
\* hashed_files digest matches its entry's bytes, the stored manifest digest equals the
\* self-excluding digest recomputed from the stored manifest, and a call of
\* validate_aifx_package on it returns with no integrity error and checks.integrity "ok".
C1_RoundTrip ==
    Untouched =>
        /\ DigestsMatch(container)
        /\ report # NoReport =>
              /\ Returned
              /\ IntegrityErrors(report) = <<>>
              /\ report.checks.integrity = "ok"

\* C1's case: a build succeeded and the validator returned "ok" for its container
C1_Witness ==
    /\ Untouched /\ last_build.ok /\ Returned
    /\ report.checks.integrity = "ok"
    /\ Len(HashedMembers(container)) >= 2

\* an entry whose name is unsafe or whose mode bits mark a symbolic link
HasUnsafeEntry(z) ==
    \E i \in DOMAIN z : is_unsafe_path(z[i].name) \/ zipinfo_is_symlink(z[i])

\* C2: Path safety.  If the container has an entry with a parent-traversal segment, an
\* absolute-style prefix or symbolic-link mode bits, the report of validate_aifx_package
\* says invalid, and no digest was computed or compared on the way.
C2_PathSafety ==
    (Returned /\ HasUnsafeEntry(container)) => (~report.valid /\ report.log = <<>>)

\* the integrity block is absent, or names another algorithm or another hash mode
IntegrityHeaderBad(manifest) ==
    LET integrity == Get(manifest, Key.integrity)
    IN  \/ ~IsDict(integrity)
        \/ Get(integrity, Key.algorithm) # Str(SHA256_NAME)
        \/ Get(integrity, Key.manifest_hash_mode) # Str(CANONICAL_EXCLUDES_SELF)

\* the report carries the manifest-hash failure
ManifestHashFailure(r) ==
    \E i \in DOMAIN r.errors : r.errors[i] = Err("Hash mismatch for", MANIFEST_JSON)

\* C3: Manifest tamper detection.  After the value of exactly one manifest field of a built
\* container was changed without recomputing the manifest hash, with or without payload
\* bytes changed as well, the report of validate_aifx_package carries the manifest-hash
\* failure.  Stated for manifests whose integrity header still names sha256 and the
\* self-excluding mode; C6 is about the other headers.
C3_ManifestTamper ==
    (/\ Returned
     /\ Cardinality({e \in edits : e.kind = "field"}) = 1
     /\ \A e \in edits : e.kind \in {"field", "payload"}
     /\ ~IntegrityHeaderBad(ManifestOf(container)))
        => ManifestHashFailure(report)

\* C4: Payload tamper detection.  After the bytes of exactly one non-manifest entry of a
\* built container were changed and nothing else, the report of validate_aifx_package
\* has exactly one integrity error, "Hash mismatch for" the changed entry, and no error
\* for any other entry or for the manifest.
C4_PayloadTamper ==
    \A name \in PayloadNames(container) :
        (Returned /\ edits = {Edit("payload", <<name>>)}) =>
            /\ IntegrityErrors(report) = <<Err("Hash mismatch for", name)>>
            /\ report.errors = IntegrityErrors(report)
            /\ report.checks.integrity = "fail"

\* C4's case: one payload entry of a container with two was overwritten, then validated
C4_Witness ==
    /\ Returned
    /\ \E name \in PayloadNames(container) :
          /\ edits = {Edit("payload", <<name>>)}
          /\ zread(container, name) = TAMPERED
          /\ zread(last_build.zip, name) # TAMPERED
    /\ Cardinality(PayloadNames(container)) >= 2

\* the hashed_files entries, other than manifest.json, whose container entry is missing
\* or does not hash to the declared digest
BadEntries(z) ==
    {HashedMembers(z)[i][1] : i \in
        {j \in DOMAIN HashedMembers(z) :
            LET name == HashedMembers(z)[j][1]
                meta == HashedMembers(z)[j][2]
            IN  /\ name # MANIFEST_JSON
                /\ ~InZip(z, name) \/ Sha256(zread(z, name)) # Get(meta, Key.sha256)}}

\* C5: Exhaustive collection.  When only payload entries of a built container were
\* overwritten or removed, the report of validate_aifx_package has an integrity error
\* for each hashed_files entry whose container entry is missing or mismatched: the pass
\* does not stop at the first one.
C5_ExhaustiveCollection ==
    (/\ Returned
     /\ \A e \in edits : e.kind \in {"payload", "remove"} /\ e.path # <<MANIFEST_JSON>>)
        => \A name \in BadEntries(container) :
              \E i \in DOMAIN report.errors :
                  /\ report.errors[i].path = name
                  /\ report.errors[i].msg \in {"Hash mismatch for", "File not found in package:"}

\* C6: Fail fast on the integrity header.  When the stored manifest has no integrity
\* block, an algorithm other than sha256 or a manifest_hash_mode other than
\* canonical_excludes_self, validate_aifx_package does not report integrity "ok" and
\* has neither computed nor compared any digest.
C6_HeaderFailFast ==
    (/\ Returned
     /\ HasManifest(container)
     /\ IsDict(ManifestOf(container))
     /\ IntegrityHeaderBad(ManifestOf(container)))
        => (report.checks.integrity # "ok" /\ report.log = <<>>)

\* the required manifest fields are all well-formed
FieldsWellFormed(manifest) ==
    LET work == Get(manifest, Key.work)
        creator == Get(manifest, Key.creator)
        title == IF IsDict(work) THEN Get(work, Key.title) ELSE None
        name == IF IsDict(creator) THEN Get(creator, Key.name) ELSE None
        contact == IF IsDict(creator) THEN Get(creator, Key.contact) ELSE None
        mode == Get(manifest, Key.mode)
    IN  /\ IsStrVal(title) /\ Strip(title[2]) # <<>>
        /\ IsStrVal(name) /\ Strip(name[2]) # <<>>
        /\ IsStrVal(contact) /\ IsEmail(contact[2])
        /\ IsStrVal(mode) /\ mode[2] \in ALLOWED_MODES
        /\ Get(manifest, Key.ai_generated) = True
        /\ Truthy(Get(manifest, Key.declaration))

\* C7: Required fields.  validate_aifx_package reports a package valid only if work.title
\* and creator.name are non-empty, creator.contact is email-like, mode is one of the three
\* allowed values, ai_generated is the boolean true and the declaration text is present.
C7_RequiredFields ==
    (Returned /\ report.valid) => FieldsWellFormed(ManifestOf(container))

\* C8: valid iff no errors.  On every return path of validate_aifx_package (manifest
\* missing, exception while reading, normal completion) the report's valid is true
\* exactly when its errors list is empty; warnings play no part.
C8_ValidIffNoErrors ==
    Returned => (report.valid <=> report.errors = <<>>)

\* C8's case: the exception path was taken and the report says so
C8_Witness ==
    /\ Returned
    /\ report.checks.manifest = "failed"
    /\ ~report.valid
    /\ report.errors # <<>>

\* C9: Determinism.  Two successive successful calls of the same build entrypoint on the
\* same inputs, whatever the time between them, write the same container.
C9_Determinism ==
    [][(/\ last_build.ok /\ last_build'.ok
        /\ last_build'.ep = last_build.ep
        /\ inputs' = inputs)
          => last_build'.zip = last_build.zip]_vars

\* C10: One hash-input function.  For the manifest of a built container, the bytes the
\* packagers hash for the manifest's own digest, the bytes validator._verify_integrity
\* hashes and the bytes verify_aifm.canonical_manifest_bytes produces are the same, and
\* their digest is the one the build stored.
C10_SameHashInput ==
    Untouched =>
        LET manifest == ManifestOf(container)
        IN  /\ canonical_manifest_bytes_compact(StripSelfEntry(manifest))
                 = validator_hash_input(manifest)
            /\ validator_hash_input(manifest) = canonical_manifest_bytes(manifest)
            /\ StoredManifestDigest(container) = Sha256(canonical_manifest_bytes(manifest))

\* the names integrity.hashed_files of the stored manifest has as keys
HashedNames(z) == {HashedMembers(z)[i][1] : i \in DOMAIN HashedMembers(z)}

\* the sha256 member of a hashed_files record is present and a non-empty digest
HasDigest(meta) ==
    /\ IsDict(meta) /\ HasKey(meta, Key.sha256)
    /\ Get(meta, Key.sha256) \notin {None, EmptyStr}

\* C20: In every container a build entrypoint produced, the keys of the manifest's
\* integrity.hashed_files are exactly the names of the container's entries, manifest.json
\* included, and every key carries a non-empty sha256 digest.
C20_HashedFilesCoverEntries ==
    (last_build.ok /\ Untouched) =>
        /\ HashedNames(container) = Range(namelist(container))
        /\ \A i \in DOMAIN HashedMembers(container) : HasDigest(HashedMembers(container)[i][2])

\* a built container with a second asset, whose manifest lists all three entries
C20_Witness ==
    /\ last_build.ok /\ Untouched
    /\ Cardinality(Range(namelist(container))) = 3
    /\ HashedNames(container) = Range(namelist(container))
    /\ MANIFEST_JSON \in HashedNames(container)

\* the file at the output path is no archive that can be opened
NotOpenable == ~out_exists

\* the archive holds a manifest.json that is not a parseable structured document
ManifestUnparseable ==
    out_exists /\ InZip(container, MANIFEST_JSON) /\ ~IsJson(zread(container, MANIFEST_JSON))

\* C16: validate_aifx_package raises exactly when the file cannot be opened as an archive
\* or its manifest.json is not parseable; every other defect is returned in the report.
C16_RaisesExactlyWhenUnreadable ==
    report # NoReport =>
        (report.outcome = "raised" <=> (NotOpenable \/ ManifestUnparseable))

\* a step in which a call of validate_aifx_package returned or raised
ValidateCalled == report' # NoReport /\ (report = NoReport \/ Len(earlier') > Len(earlier))

HashedRecord(z, member) == GetPath(ManifestOf(z), HashedRecordPath(member))

\* the record declares a byte length, and it is not the length of data
LengthDiffers(info, data) ==
    /\ IsInt(Get(info, Key.bytes)) /\ Get(info, Key.bytes)[2] >= 0
    /\ Get(info, Key.bytes)[2] # ByteLen(data)

\* the digest the record declares is the digest of data
DigestDeclared(info, data) == Get(info, Key.sha256) = Sha256(data)

\* verify's result for manifest.json belongs to a manifest whose canonical digest matches
ManifestSealed(z) ==
    /\ Get(Get(ManifestOf(z), Key.integrity), Key.manifest_hash_mode) = Str(CANONICAL_EXCLUDES_SELF)
    /\ DigestDeclared(HashedRecord(z, MANIFEST_JSON), canonical_manifest_bytes(ManifestOf(z)))

\* C19: In verify_aifm.verify, when the manifest's canonical digest matches, a declared
\* byte length of manifest.json that differs from its length in the container still gives
\* an ok result for manifest.json, while for every other hashed_files entry a declared byte
\* length that differs from the entry's length gives a failed result, also when the
\* entry's digest matches.
C19_ByteLengthAsymmetry ==
    vresult.outcome = "returned" =>
        \A i \in DOMAIN vresult.results :
            LET r == vresult.results[i]
                info == HashedRecord(container, r.path)
            IN  IF r.path = MANIFEST_JSON
                THEN (ManifestSealed(container)
                      /\ LengthDiffers(info, zread(container, MANIFEST_JSON))) => r.ok
                ELSE (InZip(container, r.path) /\ IsDict(info)
                      /\ LengthDiffers(info, zread(container, r.path))
                      /\ DigestDeclared(info, zread(container, r.path))) => ~r.ok

\* one container with both cases: manifest.json accepted with a differing length, an asset
\* with a matching digest rejected for its differing length
C19_Witness ==
    /\ vresult.outcome = "returned"
    /\ ManifestSealed(container)
    /\ LengthDiffers(HashedRecord(container, MANIFEST_JSON), zread(container, MANIFEST_JSON))
    /\ \E i, j \in DOMAIN vresult.results :
          LET r == vresult.results[i]
              q == vresult.results[j]
          IN  /\ r.path = MANIFEST_JSON /\ r.ok /\ r.reason = "OK (bytes differ)"
              /\ q.path # MANIFEST_JSON /\ ~q.ok /\ q.reason = "bytes mismatch"
              /\ DigestDeclared(HashedRecord(container, q.path), zread(container, q.path))

\* what a reader of the path finds: nothing, or an archive closed with all its entries
AbsentOrComplete(path) ==
    IF path \in DOMAIN files THEN files[path].state = "complete" ELSE TRUE

\* C11: Atomic archive write.  At every point during and after write_zip_deterministic,
\* also when it fails part-way, the destination path is absent or holds a complete
\* container, the previous one or the new one: entries are written to a separate
\* temporary path that is renamed to the destination after the archive is closed.
C11_AtomicWrite ==
    \A c \in DOMAIN calls :
        calls[c].ep = "convert_to_aifm" =>
            /\ AbsentOrComplete(calls[c].out)
            /\ calls[c].out \in DOMAIN files => files[calls[c].out].by \in {0, c}

\* the archive writer failed after some entries: the previous container is still at the
\* destination and the partial archive is at the temporary path
C11_Witness ==
    \E c \in DOMAIN calls :
        /\ calls[c].ep = "convert_to_aifm"
        /\ calls[c].outcome = "raised" /\ calls[c].at = "write"
        /\ calls[c].out \in DOMAIN files /\ files[calls[c].out] = Previous
        /\ tmp_path(calls[c].out) \in DOMAIN files
        /\ files[tmp_path(calls[c].out)].state = "truncated"
        /\ files[tmp_path(calls[c].out)].names # <<>>

\* the call raised while it was writing the archive
AssemblyFailed(c) == calls[c].outcome = "raised" /\ calls[c].at \in {"open", "write"}

\* C12: When archive assembly fails part-way in build_aifm, build_aifv or build_aifi, the
\* destination path holds no partially written container: it is absent, and a container
\* that was there before the build is not replaced by a partial one.
C12_NoPartialDestination ==
    \A c \in DOMAIN calls :
        (calls[c].ep \in {"build_aifm", "build_aifv", "build_aifi"}
         /\ calls[c].profile = "good" /\ AssemblyFailed(c)) =>
            AbsentOrComplete(calls[c].out)

\* the call has returned or raised
Finished(c) == calls[c].pc = "done"

\* C13: Staging cleanup.  Every build that created a staging directory (convert_to_aifm
\* with build_package, build_aifi) has removed it when the call returns or raises, on
\* the success path and on every failure path.
C13_StagingRemoved ==
    \A c \in DOMAIN calls :
        (calls[c].ep \in Staged /\ calls[c].profile = "good"
         /\ Finished(c) /\ calls[c].staging # NoStaging) =>
            calls[c].staging \notin DOMAIN staged

\* the call's staged files are in its staging directory, as the call wrote them
OwnFilesIntact(c) ==
    /\ calls[c].staging \in DOMAIN staged
    /\ \A rel \in StagedRels(calls[c]) :
          IF rel \in DOMAIN staged[calls[c].staging]
          THEN staged[calls[c].staging][rel].by = c ELSE FALSE

\* the steps at which the call relies on the files it staged
UsesStaging(c) ==
    /\ Running(c) /\ calls[c].ep \in Staged
    /\ calls[c].pc \in {"parent", "bp_check", "bp_manifest", "unlink", "open", "write"}

\* C14: Two build calls that run concurrently with distinct output paths never use the
\* same staging directory, and neither deletes or overwrites files in the other's staging
\* directory, also for two convert_to_aifm calls of one process in the same second and
\* for two build_aifi calls whose output names have the same stem.
C14_NoSharedStaging ==
    \A c, d \in DOMAIN calls :
        (c # d /\ Running(c) /\ Running(d) /\ calls[c].out # calls[d].out) =>
            /\ (calls[c].staging # NoStaging => calls[c].staging # calls[d].staging)
            /\ (UsesStaging(c) /\ calls[c].error = "") => OwnFilesIntact(c)

\* C15: Input errors abort before anything is written.  A build entrypoint given a
\* missing source asset, a disallowed extension, an empty title, creator name or creator
\* contact, or a malformed contact raises, and has then created no output file, no
\* staging directory and no output parent directory.
C15_InputErrorsWriteNothing ==
    \A c \in DOMAIN calls :
        calls[c].profile # "good" =>
            /\ calls[c].made = {}
            /\ calls[c].outcome # "returned"

\* build_package was called and went past its symlink check, or raised at it
PastSymlinkCheck(c) ==
    /\ calls[c].ep = "convert_to_aifm"
    /\ \/ calls[c].pc \in {"bp_manifest", "open", "write", "unlink", "rename", "cleanup"}
       \/ Finished(c) /\ calls[c].outcome = "returned"
       \/ Finished(c) /\ calls[c].at \in {"bp_check", "bp_manifest", "write", "rename"}

HasSymlink(c) ==
    IF calls[c].staging \in DOMAIN staged
    THEN \E rel \in DOMAIN staged[calls[c].staging] : staged[calls[c].staging][rel].link
    ELSE FALSE

\* C18: If the staging directory holds a symbolic link when build_package is called,
\* build_package raises SymlinkNotAllowedError before it writes manifest.json into
\* staging and before it creates the temporary archive or the destination file.
C18_SymlinkRejected ==
    \A c \in DOMAIN calls :
        (PastSymlinkCheck(c) /\ HasSymlink(c)) =>
            /\ calls[c].outcome = "raised" /\ calls[c].error = "SymlinkNotAllowedError"
            /\ MANIFEST_JSON \notin DOMAIN staged[calls[c].staging]
            /\ tmp_path(calls[c].out) \notin DOMAIN files
            /\ calls[c].made \cap {"tmp", "dest"} = {}
            /\ AbsentOrComplete(calls[c].out)

\* a call that raised SymlinkNotAllowedError, the container of an earlier build untouched
C18_Witness ==
    \E c \in DOMAIN calls :
        /\ HasSymlink(c) /\ calls[c].at = "bp_check"
        /\ calls[c].outcome = "raised" /\ calls[c].error = "SymlinkNotAllowedError"
        /\ calls[c].out \in DOMAIN files /\ files[calls[c].out] = Previous

\* the entry names that occur more than once in the archive
DuplicatedNames(z) == {z[i].name : i \in {k \in DOMAIN z : \E j \in DOMAIN z : j # k /\ z[j].name = z[k].name}}

\* C21: No package that validate_aifx_package reports valid contains two entries with the
\* same relative path: a container in which an entry name occurs twice is reported invalid.
C21_NoDuplicateNames ==
    (Returned /\ DuplicatedNames(container) # {}) => ~report.valid

\* C27: Every entry of a container that validate_aifx_package reports valid is listed in
\* integrity.hashed_files: a container holding an entry that hashed_files does not name
\* is reported invalid.
C27_EveryEntryListed ==
    (Returned /\ report.valid) => Range(namelist(container)) \subseteq HashedNames(container)

\* the name has a component "..", the components taken between "/" once "\" is replaced
HasParentComponent(name) ==
    \E i \in DOMAIN Split(ReplaceBackslash(name)) : Split(ReplaceBackslash(name))[i] = <<".", ".">>

\* the names the rule refuses: a leading "/" or "\", a drive prefix (a letter, ":" and "/"
\* once "\" is replaced by "/"), or a component ".."
RefusedByRule(name) ==
    \/ (name # <<>> /\ name[1] \in {"/", "\\"})
    \/ (Len(name) >= 3 /\ name[1] \in (Range(UpperCase) \cup Range(LowerCase))
            /\ name[2] = ":" /\ name[3] \in {"/", "\\"})
    \/ HasParentComponent(name)

\* C24: _is_unsafe_path returns true for an entry name exactly when the name starts with
\* "/" or "\", or (after replacing "\" by "/") starts with a letter followed by ":/", or
\* has a path component equal to ".."; a name with a ".." component is refused even when
\* normalization would keep it inside the root (a/../a), and every other name is accepted.
C24_UnsafeExactly ==
    (checked # <<>> /\ checked.called) => (checked.unsafe <=> RefusedByRule(checked.name))

\* the answer for a/../a, which normalizes to a, was given
C24_Witness ==
    /\ checked # <<>> /\ checked.called
    /\ checked.name = <<"a", "/", ".", ".", "/", "a">>
    /\ normpath(checked.name) = <<"a">>
    /\ checked.unsafe

\* (external_attr >> 16) & 0o170000 == 0o120000
ModeBitsSayLink(e) == (Shr16(e.external_attr) \div 4096) % 16 = 10

\* the keys validate_aifv writes into checks
AifvCheckNames ==
    {"security.safe_paths", "security.no_symlinks", "files.thumbnail_present",
     "files.primary_video_single", "manifest.work.title", "manifest.creator.name",
     "manifest.creator.contact", "manifest.mode", "manifest.ai_generated",
     "manifest.verification_tier", "manifest.declaration", "info.video_facts_present"}

InErrors(r, message) == \E i \in DOMAIN r.errors : r.errors[i] = message

\* C25: validate_aifv sets checks["security.no_symlinks"] to false and adds the error
\* "security: symlinks are not allowed" exactly when some entry of the archive has
\* (external_attr >> 16) & 0o170000 equal to 0o120000; an entry with external_attr
\* 0o600 << 16, as write_zip_deterministic writes it, is never such an entry; and with a
\* symbolic link or an unsafe path found, every other check is still evaluated and
\* recorded: a missing assets/thumb.jpg is still reported.
C25_SymlinkCheck ==
    aifv # <<>> =>
        LET linked == \E i \in DOMAIN aifv.z : ModeBitsSayLink(aifv.z[i])
        IN  /\ aifv.checks["security.no_symlinks"] = ~linked
            /\ InErrors(aifv, "security: symlinks are not allowed") <=> linked
            /\ \A i \in DOMAIN aifv.z :
                  aifv.z[i].external_attr = Shl16(PERM_0600) => ~ModeBitsSayLink(aifv.z[i])
            /\ DOMAIN aifv.checks = AifvCheckNames
            /\ aifv.checks["files.thumbnail_present"] = (THUMB_PATH \in Range(namelist(aifv.z)))
            /\ InErrors(aifv, "assets/thumb.jpg missing (required)")
                  <=> THUMB_PATH \notin Range(namelist(aifv.z))

\* validate_aifv was given a container of write_zip_deterministic to which a symbolic link
\* was added: the link is reported, and so is the thumbnail the container lacks
C25_Witness ==
    /\ aifv # <<>>
    /\ last_build.ep = "convert_to_aifm"
    /\ \E i \in DOMAIN aifv.z : ModeBitsSayLink(aifv.z[i])
    /\ \E i \in DOMAIN aifv.z : aifv.z[i].external_attr = Shl16(PERM_0600)
    /\ ~aifv.checks["security.no_symlinks"]
    /\ InErrors(aifv, "security: symlinks are not allowed")
    /\ InErrors(aifv, "assets/thumb.jpg missing (required)")

\* C28: For every input set that build_aifv accepts, validate_aifv on the container it
\* produced and on the manifest stored in it returns an empty errors list; the thumbnail
\* entry build_aifv writes is the one validate_aifv requires.
C28_BuiltAifvValidates ==
    (aifv # <<>> /\ last_build.ok /\ last_build.ep = "build_aifv" /\ aifv.z = last_build.zip) =>
        (aifv.errors = <<>> /\ aifv.checks["files.thumbnail_present"])

\* C29: The two verifiers agree.  With verify_aifm.verify and validate_aifx_package both
\* called on the container at the output path, verify returns ok = True exactly when the
\* report records checks["integrity"] = "ok"; every unmodified container a build
\* entrypoint produced is reported intact by verify.
C29_VerifiersAgree ==
    /\ (Returned /\ vresult.outcome = "returned") =>
          (vresult.ok <=> report.checks.integrity = "ok")
    /\ (last_build.ok /\ Untouched /\ vresult # NoVerify) =>
          (vresult.outcome = "returned" /\ vresult.ok)

\* the entry names of the container a build_package call wrote, in stored order
WrittenNames(result) == namelist(result.zip)

\* C22: write_zip_deterministic writes the entries in lexicographic order of their
\* relative path strings (forward-slash form), for every set of staged files, a.txt next
\* to a/b included.
C22_EntriesInStringOrder ==
    pkg # <<>> =>
        \A r \in DOMAIN pkg.results :
            \A i, j \in DOMAIN WrittenNames(pkg.results[r]) :
                i < j => StrLess(WrittenNames(pkg.results[r])[i], WrittenNames(pkg.results[r])[j])

\* C23: Build idempotence.  Every call of build_package on the same PackageBuild, staging
\* kept, yields the hashed_files table and the manifest.json digest of the first call:
\* the digest recorded for manifest.json in the table and the digest of the manifest.json
\* file left in staging.
C23_BuildIdempotent ==
    pkg # <<>> =>
        \A r \in DOMAIN pkg.results :
            /\ pkg.results[r].hashed_files = pkg.results[1].hashed_files
            /\ pkg.results[r].manifest_sha = pkg.results[1].manifest_sha

\* a second call ran on a staging directory that held the final manifest.json of the first
\* and on a manifest that carried the hashed_files of the first
C23_Witness ==
    /\ pkg # <<>>
    /\ Len(pkg.results) = 2
    /\ pkg.manifest # pkg.given
    /\ HasKey(pkg.results[2].hashed_files, MANIFEST_JSON)
    /\ Cardinality(DOMAIN pkg.staging) >= 3

\* C26: build_package leaves the manifest document the caller supplied unchanged: after
\* the call PackageBuild.manifest, its integrity block and integrity.hashed_files included,
\* has the content it had before the call.
C26_CallerManifestUnchanged ==
    (pkg # <<>> /\ pkg.results # <<>>) => pkg.manifest = pkg.given

\* the asset entries of an archive a build call wrote and closed: every entry the call
\* set out to write but manifest.json
AssetEntries(a) ==
    {i \in DOMAIN a.names : a.names[i] # MANIFEST_JSON /\ a.names[i] \in Range(calls[a.by].plan)}

\* C30: For every asset entry of a container a build entrypoint produced, the SHA-256 of
\* the entry's bytes in the container equals the digest recorded for it in hashed_files:
\* the bytes that were hashed and the bytes that were archived are the same bytes, taken
\* from the source once or from one staged copy no other call touches.
C30_DigestOfArchivedBytes ==
    \A p \in DOMAIN files :
        (files[p].by # 0 /\ files[p].state = "complete") =>
            \A i \in AssetEntries(files[p]) :
                IF files[p].names[i] \in DOMAIN files[p].digests
                THEN files[p].digests[files[p].names[i]] = files[p].origin[i]
                ELSE FALSE

\* with one build call and another process writing to the source file at any point, the
\* digest recorded is the digest of the bytes archived
DigestOfTakenBytes ==
    (run # <<>> /\ run.pc = "done") => run.digest = Sha256(run.archived)

\* the source was overwritten between the hashing and the archiving, and the container
\* holds the bytes that were hashed, not the bytes the source has now
TakenBytesKept ==
    /\ run # <<>> /\ run.pc = "done"
    /\ \E i \in DOMAIN run.written_at : run.written_at[i] = "archive"
    /\ run.at.source # run.archived
    /\ run.digest = Sha256(run.archived)
====
